---- MODULE Spec2Model ----
(***************************************************************************)
(* The skill sandbox of glyphbox: SkillSandbox.execute, execute_local and   *)
(* execute_code (src/src/sandbox/manager.py) and APIProxy.serve            *)
(* (src/src/sandbox/proxy.py), run on one asyncio event loop.              *)
(*                                                                         *)
(* One behaviour is one call.  The event loop is cooperative: `running`    *)
(* names the task that holds the thread, and a task step or a timer        *)
(* callback runs only when no task holds it.  Synchronous library calls    *)
(* (docker SDK, file system) keep the thread for as long as they last.     *)
(* Time is counted in ticks of 1/TicksPerSecond seconds.                   *)
(***************************************************************************)
EXTENDS Integers, Sequences, FiniteSets, TLC

\* ---------------------------------------------------------------- bounds
TicksPerSecond == 2
MaxTimeout == 3
MaxErrors == 2
MaxRpc == 2
MaxFrames == 2

\* proxy.py 27
MAX_MESSAGE_SIZE == 1048576

AlarmTicks_NoMargin(t) == (t \div TicksPerSecond) * TicksPerSecond

\* signal.alarm(int(timeout) + 1): whole seconds, in ticks
AlarmTicks(t) == ((t \div TicksPerSecond) + 1) * TicksPerSecond
MaxTime == AlarmTicks(MaxTimeout) + 1

Ops == {"execute", "execute_local", "execute_code", "serve"}
Timeouts == 1..MaxTimeout
ErrorIds == {"e1", "e2"}
\* what signal.signal(SIGALRM, ...) can return as the previous handler
Handlers == {"py_handler", "SIG_DFL", "SIG_IGN", "None"}
ExitCodes == {0, 1}
ResultFiles == {"success", "failure", "malformed"}

VARIABLES
    op,              \* the operation called
    aliased,         \* the build: asyncio.TimeoutError is builtin TimeoutError (Python >= 3.11)
    timeout,         \* the call's timeout, in ticks
    validation,      \* what validate_skill / validate_adhoc_code answers for the code
    pc,              \* position of the called coroutine
    outcomes,        \* what the caller has been handed: results returned, exceptions raised
    retval,          \* execute_code: outcome held while its finally block runs
    initialized,     \* SkillSandbox._initialized
    now,             \* clock
    timerArmed,      \* wait_for's timeout handle is scheduled
    deadline,        \* when it is due
    timedOut,        \* wait_for's timeout callback has run
    running,         \* the task holding the thread: "outer", "inner" or "none"
    inner,           \* position of the awaited coroutine (_execute_in_container, or the submitted code)
    innerRes,        \* how it ended
    tmpdir,          \* the workspace directory: "none", "exists", "removed"
    sock,            \* the api.sock file: "none", "bound", "removed"
    proxy,           \* the serve task: "none", "scheduled", "listening", "cancelled", "finished"
    proxyMustCancel, \* cancel() was requested on the serve task
    proxyRunning,    \* APIProxy._running
    container,       \* "none", "running", "exited"
    resultFile,      \* result.json in the workspace: "absent" or one of ResultFiles
    exitCode,        \* the container's StatusCode
    inflight,        \* RPC requests written to the socket and not yet answered
    served,          \* RPC requests answered
    refused,         \* RPC attempts that found no listening socket
    handler,         \* the process-wide SIGALRM handler
    prevHandler,     \* the handler in place before the call
    oldHandler,      \* execute_code's local old_handler
    alarmArmed,      \* a SIGALRM alarm is pending
    alarmAt,         \* when it is due
    stray,           \* timeout_handler ran after the call that installed it had ended
    wPeer,           \* who writes the stream: "writer" (write_message only) or "raw"
    wOut,            \* bytes written to the stream and not yet delivered to the reader
    wBuf,            \* the StreamReader's buffer
    wEof,            \* the writing side has closed the stream
    wRaw,            \* the raw peer has written its crafted frame
    wSent,           \* the messages written with write_message, in order
    wReads,          \* what the read_message calls have returned, in order
    wPos,            \* position of the read_message loop: "len", "body", "stopped"
    wLen,            \* the length the current frame's prefix declared
    cKind,           \* the client of the connection: "api_stub.py", "API_STUB_CODE", "raw"
    cId,             \* the stub's _request_id
    cPhase,          \* the stub's position in _send: "idle", "sent", "body"
    cLen,            \* the length the stub took from the prefix it received
    cAcc,            \* response_data gathered so far by the stub
    cDone,           \* how the stub's calls ended, in order
    cClosed,         \* the client has closed its end of the connection
    cOut,            \* bytes the proxy has written and the client's socket has not yet got
    cBuf,            \* bytes waiting in the client's socket
    cEof,            \* the proxy has closed the connection's writer
    sIn,             \* requests read_message will decode next, in order
    sLoop,           \* _handle_client's loop: "serving" or "ended"
    sEndedBy,        \* which request's exception ended the loop (0: none did)
    sLog,            \* the requests the loop has taken, with what became of each
    reqs,            \* concurrent execute requests: each one's inputs, position and result
    fs,              \* the workspaces under the temp directory, by name
    holder,          \* the request whose blocking section holds the event loop (0: none)
    calls,           \* concurrent execute_code calls: each one's code, position, saved handler
    sigH,            \* the process's SIGALRM handler
    sigAlarm,        \* the call whose signal.alarm is pending (0: no alarm pending)
    spinner,         \* the call whose code is running without giving the loop back (0: none)
    scen,            \* one skill and one piece of ad-hoc code: what they return, raise and print
    art,             \* what the skill's container has left: result.json, exit code, logs
    outLocal,        \* what execute_local returned for the skill
    outExec,         \* what execute returned for the skill
    outCode,         \* what execute_code returned for the ad-hoc code
    creates,         \* each create_and_start_run call: where it stands, for which user
    runners,         \* each run's WebAgentRunner as InProcessBackend holds it
    run_owners,      \* RunManager._run_owners: run -> user (0: no entry)
    user_runs,       \* RunManager._user_runs: user -> set of runs
    stopLog,         \* the stop_run calls made: run, user, HTTP status
    stopAll,         \* RunManager.stop_all at shutdown: where it stands, the runs it has tried
    db,              \* the runs table: each run's persisted status ("none": no record)
    queued,          \* the jobs deferred to the agent_runs queue and not yet picked up
    active_runs,     \* ProcrastinateBackend._active_runs
    worker,          \* each run's job in a worker process: where its WebAgentRunner stands
    stops,           \* each run's backend stop_run call: where it stands, for which caller
    monitor,         \* ProcrastinateBackend._monitor_loop: asleep or in a pass, runs left
    finishedCalls,   \* how often the backend has invoked the on-finished callback per run
    restarts         \* how often the web server has been restarted

vars == <<op, aliased, timeout, validation, pc, outcomes, retval, initialized, now,
          timerArmed, deadline, timedOut, running, inner, innerRes, tmpdir, sock,
          proxy, proxyMustCancel, proxyRunning, container, resultFile, exitCode,
          inflight, served, refused, handler, prevHandler, oldHandler, alarmArmed,
          alarmAt, stray, wPeer, wOut, wBuf, wEof, wRaw, wSent, wReads, wPos, wLen,
          cKind, cId, cPhase, cLen, cAcc, cDone, cClosed, cOut, cBuf, cEof,
          sIn, sLoop, sEndedBy, sLog, reqs, fs, holder,
          calls, sigH, sigAlarm, spinner, scen, art, outLocal, outExec, outCode,
          creates, runners, run_owners, user_runs, stopLog, stopAll,
          db, queued, active_runs, worker, stops, monitor, finishedCalls, restarts>>

pairVars == <<reqs, fs, holder>>
alarmVars == <<calls, sigH, sigAlarm, spinner>>
resultVars == <<scen, art, outLocal, outExec, outCode>>
runVars == <<creates, runners, run_owners, user_runs, stopLog, stopAll>>
jobVars == <<db, queued, active_runs, worker, stops, monitor, finishedCalls, restarts>>
connVars == <<cKind, cId, cPhase, cLen, cAcc, cDone, cClosed, cOut, cBuf, cEof,
              sIn, sLoop, sEndedBy, sLog>>
wireVars == <<wPeer, wOut, wBuf, wEof, wRaw, wSent, wReads, wPos, wLen>>
\* what a sandbox call never changes: its inputs, and the state of the transport
callVars == <<op, aliased, timeout, validation, prevHandler, wireVars, connVars, pairVars,
              alarmVars, resultVars, runVars, jobVars>>
clockVars == <<now, timerArmed, deadline, timedOut>>
fsVars == <<tmpdir, sock, resultFile>>
proxyVars == <<proxy, proxyMustCancel, proxyRunning>>
rpcVars == <<inflight, served, refused>>
contVars == <<container, exitCode>>
sigVars == <<handler, oldHandler, alarmArmed, alarmAt, stray>>

\* ---------------------------------------------------------------- values
\* A message text: a format, the number it quotes (0: none) and its parts.
Msg(fmt, t, parts) == [fmt |-> fmt, t |-> t, parts |-> parts]
NoMsg == Msg("", 0, <<>>)

\* '; '.join(errors)
RECURSIVE Join(_)
Join(errors) ==
    IF Len(errors) = 0 THEN <<>>
    ELSE IF Len(errors) = 1 THEN <<errors[1]>>
    ELSE <<errors[1], "; ">> \o Join(Tail(errors))

ValidationMessage_FirstOnly(errors) == Msg("Validation failed: ", 0, <<errors[1]>>)

\* f"Validation failed: {'; '.join(validation.errors)}"
ValidationMessage(errors) == Msg("Validation failed: ", 0, Join(errors))

\* ExecutionResult(success=..., error=...)
Result(success, error) ==
    [kind |-> "result", success |-> success, exc |-> "none", error |-> error]
\* an exception raised to the awaiting caller
Raised(type, msg) ==
    [kind |-> "raise", success |-> FALSE, exc |-> type, error |-> msg]
\* the awaited task ended cancelled
Cancelled == [kind |-> "cancelled", success |-> FALSE, exc |-> "CancelledError", error |-> NoMsg]
NoRes == [kind |-> "none", success |-> FALSE, exc |-> "none", error |-> NoMsg]

\* except asyncio.TimeoutError: matches the builtin TimeoutError where the two are one class
IsAsyncioTimeout(type) ==
    type = "asyncio.TimeoutError" \/ (aliased /\ type = "TimeoutError")

SeqsUpTo(S, n) == UNION {[1..k -> S] : k \in 1..n}
Validations ==
    {[valid |-> TRUE, errors |-> <<>>]}
        \cup {[valid |-> FALSE, errors |-> e] : e \in SeqsUpTo(ErrorIds, MaxErrors)}

ProxyDone == {"cancelled", "finished"}

\* ---------------------------------------------------------------- initial state
\* no transport in use
WireIdle ==
    /\ wPeer = "writer"
    /\ wOut = <<>>
    /\ wBuf = <<>>
    /\ wEof = FALSE
    /\ wRaw = FALSE
    /\ wSent = <<>>
    /\ wReads = <<>>
    /\ wPos = "len"
    /\ wLen = 0

\* no connection to the proxy
ConnIdle ==
    /\ cKind = "raw"
    /\ cId = 0
    /\ cPhase = "idle"
    /\ cLen = 0
    /\ cAcc = <<>>
    /\ cDone = <<>>
    /\ cClosed = FALSE
    /\ cOut = <<>>
    /\ cBuf = <<>>
    /\ cEof = FALSE
    /\ sIn = <<>>
    /\ sLoop = "serving"
    /\ sEndedBy = 0
    /\ sLog = <<>>

\* no concurrent requests
PairIdle ==
    /\ reqs = <<>>
    /\ fs = <<>>
    /\ holder = 0

\* no concurrent execute_code calls
AlarmIdle ==
    /\ calls = <<>>
    /\ sigH = "SIG_DFL"
    /\ sigAlarm = 0
    /\ spinner = 0

\* no worker backend
JobsIdle ==
    /\ db = <<>>
    /\ queued = {}
    /\ active_runs = {}
    /\ worker = <<>>
    /\ stops = <<>>
    /\ monitor = <<>>
    /\ finishedCalls = <<>>
    /\ restarts = 0

\* no RunManager
RunsIdle ==
    /\ creates = <<>>
    /\ runners = <<>>
    /\ run_owners = <<>>
    /\ user_runs = <<>>
    /\ stopLog = <<>>
    /\ stopAll = <<>>

\* no results under comparison
ResultIdle ==
    /\ scen = <<>>
    /\ art = <<>>
    /\ outLocal = <<>>
    /\ outExec = <<>>
    /\ outCode = <<>>

\* no sandbox call begun
CallIdle ==
    /\ handler = prevHandler
    /\ oldHandler = "None"
    /\ pc = "start"
    /\ outcomes = <<>>
    /\ retval = NoRes
    /\ now = 0
    /\ timerArmed = FALSE
    /\ deadline = 0
    /\ timedOut = FALSE
    /\ running = "outer"
    /\ inner = "none"
    /\ innerRes = NoRes
    /\ tmpdir = "none"
    /\ sock = "none"
    /\ proxy = "none"
    /\ proxyMustCancel = FALSE
    /\ proxyRunning = FALSE
    /\ container = "none"
    /\ resultFile = "absent"
    /\ exitCode = 0
    /\ inflight = 0
    /\ served = 0
    /\ refused = 0
    /\ alarmArmed = FALSE
    /\ alarmAt = 0
    /\ stray = FALSE

Init ==
    /\ op \in Ops
    /\ aliased \in BOOLEAN
    /\ timeout \in Timeouts
    /\ validation \in Validations
    /\ prevHandler \in Handlers
    /\ initialized \in BOOLEAN
    /\ op # "execute" => initialized = FALSE
    /\ op # "execute_code" => prevHandler = "SIG_DFL"
    /\ op = "serve" => (validation.valid /\ timeout = 1 /\ ~aliased)
    /\ CallIdle
    /\ WireIdle
    /\ ConnIdle
    /\ PairIdle
    /\ AlarmIdle
    /\ ResultIdle
    /\ RunsIdle
    /\ JobsIdle

\* ---------------------------------------------------------------- execute
\* manager.py 244-245 and initialize(): a failure to reach docker is raised
ExecuteInitialize ==
    /\ op = "execute" /\ pc = "start"
    /\ \/ /\ initialized' = TRUE
          /\ pc' = "validate"
          /\ UNCHANGED outcomes
       \/ /\ ~initialized
          /\ pc' = "done"
          /\ outcomes' = Append(outcomes, Raised("SandboxStartupError", NoMsg))
          /\ UNCHANGED initialized
    /\ UNCHANGED <<callVars, retval, clockVars, running, inner, innerRes, fsVars,
                   proxyVars, contVars, rpcVars, sigVars>>

\* manager.py 249-257
ExecuteValidate ==
    /\ op = "execute" /\ pc = "validate"
    /\ IF validation.valid
       THEN /\ pc' = "call"
            /\ UNCHANGED outcomes
       ELSE /\ pc' = "done"
            /\ outcomes' = Append(outcomes, Result(FALSE, ValidationMessage(validation.errors)))
    /\ UNCHANGED <<callVars, retval, initialized, clockVars, running, inner, innerRes,
                   fsVars, proxyVars, contVars, rpcVars, sigVars>>

\* asyncio.wait_for(coro, timeout): the coroutine becomes a task that is ready to
\* run, the timeout handle is scheduled, the caller suspends (manager.py 261-264,
\* 529-532, 734-737)
WaitFor ==
    /\ op \in {"execute", "execute_local", "execute_code"}
    /\ pc = "call"
    /\ pc' = "await"
    /\ inner' = "ready"
    /\ timerArmed' = TRUE
    /\ deadline' = now + timeout
    /\ running' = "none"
    /\ UNCHANGED <<callVars, outcomes, retval, initialized, now, timedOut, innerRes,
                   fsVars, proxyVars, contVars, rpcVars, sigVars>>

\* manager.py 290-316: the workspace, the two files, the socket path, and
\* create_task(api_proxy.serve(...)), which only schedules the serve task
InnerPrepare ==
    /\ op = "execute" /\ inner = "ready" /\ running = "none"
    /\ \/ /\ tmpdir' = "exists"
          /\ proxy' = "scheduled"
          /\ inner' = "launch"
          /\ running' = "inner"
          /\ UNCHANGED innerRes
       \/ \* write_text raises: the with block removes the directory
          /\ tmpdir' = "removed"
          /\ inner' = "done"
          /\ innerRes' = Raised("OSError", Msg("write failed", 0, <<>>))
          /\ UNCHANGED <<proxy, running>>
    /\ UNCHANGED <<callVars, pc, outcomes, retval, initialized, clockVars, sock,
                   resultFile, proxyMustCancel, proxyRunning, contVars, rpcVars, sigVars>>

\* manager.py 319-341: containers.run(detach=True, remove=True)
InnerLaunch ==
    /\ op = "execute" /\ inner = "launch"
    /\ \/ /\ container' = "running"
          /\ inner' = "wait"
          /\ UNCHANGED innerRes
       \/ /\ inner' = "finally"
          /\ innerRes' = Raised("DockerException", Msg("run failed", 0, <<>>))
          /\ UNCHANGED container
    /\ UNCHANGED <<callVars, pc, outcomes, retval, initialized, clockVars, running,
                   fsVars, proxyVars, exitCode, rpcVars, sigVars>>

\* manager.py 343-345: container.wait() is a synchronous call of the docker SDK;
\* it returns when the container has exited, or raises while it still runs
InnerWait ==
    /\ op = "execute" /\ inner = "wait"
    /\ \/ /\ container = "exited"
          /\ inner' = "logs"
          /\ UNCHANGED innerRes
       \/ /\ inner' = "finally"
          /\ innerRes' = Raised("DockerException", Msg("wait failed", 0, <<>>))
    /\ UNCHANGED <<callVars, pc, outcomes, retval, initialized, clockVars, running,
                   fsVars, proxyVars, contVars, rpcVars, sigVars>>

\* manager.py 347-349
InnerLogs ==
    /\ op = "execute" /\ inner = "logs"
    /\ \/ /\ inner' = "read"
          /\ UNCHANGED innerRes
       \/ /\ inner' = "finally"
          /\ innerRes' = Raised("DockerException", Msg("logs failed", 0, <<>>))
    /\ UNCHANGED <<callVars, pc, outcomes, retval, initialized, clockVars, running,
                   fsVars, proxyVars, contVars, rpcVars, sigVars>>

\* manager.py 351-370
InnerReadResult ==
    /\ op = "execute" /\ inner = "read"
    /\ inner' = "finally"
    /\ innerRes' =
         CASE resultFile = "absent" ->
                Result(FALSE, Msg("Container exited with code ", exitCode, <<>>))
           [] resultFile = "success" -> Result(TRUE, NoMsg)
           [] resultFile = "failure" -> Result(FALSE, Msg("skill error", 0, <<>>))
           [] resultFile = "malformed" ->
                Raised("JSONDecodeError", Msg("bad json", 0, <<>>))
    /\ UNCHANGED <<callVars, pc, outcomes, retval, initialized, clockVars, running,
                   fsVars, proxyVars, contVars, rpcVars, sigVars>>

InnerFinally_NoAwait ==
    /\ op = "execute" /\ inner = "finally"
    /\ proxyMustCancel' = TRUE
    /\ tmpdir' = "removed"
    /\ sock' = IF sock = "bound" THEN "removed" ELSE sock
    /\ inner' = "done"
    /\ running' = "none"
    /\ UNCHANGED <<callVars, pc, outcomes, retval, initialized, clockVars, innerRes,
                   resultFile, proxy, proxyRunning, contVars, rpcVars, sigVars>>

\* manager.py 372-376: proxy_task.cancel(), then await proxy_task suspends
InnerFinally ==
    /\ op = "execute" /\ inner = "finally"
    /\ proxyMustCancel' = TRUE
    /\ inner' = "await_proxy"
    /\ running' = "none"
    /\ UNCHANGED <<callVars, pc, outcomes, retval, initialized, clockVars, innerRes,
                   fsVars, proxy, proxyRunning, contVars, rpcVars, sigVars>>

InnerResume_PropagateCancel ==
    /\ op = "execute" /\ inner = "await_proxy" /\ running = "none"
    /\ proxy \in ProxyDone
    /\ tmpdir' = "removed"
    /\ sock' = IF sock = "bound" THEN "removed" ELSE sock
    /\ inner' = "done"
    /\ innerRes' = IF timedOut THEN Cancelled ELSE innerRes
    /\ UNCHANGED <<callVars, pc, outcomes, retval, initialized, clockVars, running,
                   resultFile, proxyVars, contVars, rpcVars, sigVars>>

\* manager.py 376-378, then the exit of the with block of line 296: the serve task
\* has ended; CancelledError, the serve task's or a cancellation of this coroutine
\* by wait_for, is caught and dropped; TemporaryDirectory removes the workspace
InnerResume ==
    /\ op = "execute" /\ inner = "await_proxy" /\ running = "none"
    /\ proxy \in ProxyDone
    /\ tmpdir' = "removed"
    /\ sock' = IF sock = "bound" THEN "removed" ELSE sock
    /\ inner' = "done"
    /\ UNCHANGED <<callVars, pc, outcomes, retval, initialized, clockVars, running,
                   innerRes, resultFile, proxyVars, contVars, rpcVars, sigVars>>

\* The isolated process (docker/run_skill.py, docker/api_stub.py), or any client of
\* a served socket.
ClientActive == container = "running" \/ (op = "serve" /\ pc = "await")

\* api_stub.py 66-83, _connect then sendall: the request reaches a listening
\* socket, or connect() fails because nothing is bound to api.sock
StubSend ==
    /\ ClientActive
    /\ inflight + served + refused < MaxRpc
    /\ \/ /\ sock = "bound"
          /\ inflight' = inflight + 1
          /\ UNCHANGED refused
       \/ /\ sock # "bound"
          /\ refused' = refused + 1
          /\ UNCHANGED inflight
    /\ UNCHANGED <<callVars, pc, outcomes, retval, initialized, clockVars, running,
                   inner, innerRes, fsVars, proxyVars, contVars, served, sigVars>>

\* run_skill.py 44-47, 144-172: write_result
ContainerWriteResult ==
    /\ container = "running"
    /\ resultFile = "absent"
    /\ resultFile' \in ResultFiles
    /\ UNCHANGED <<callVars, pc, outcomes, retval, initialized, clockVars, running,
                   inner, innerRes, tmpdir, sock, proxyVars, contVars, rpcVars, sigVars>>

\* run_skill.py 160-176: sys.exit, or the process is killed
ContainerExit ==
    /\ container = "running"
    /\ inflight = 0
    /\ container' = "exited"
    /\ exitCode' \in ExitCodes
    /\ UNCHANGED <<callVars, pc, outcomes, retval, initialized, clockVars, running,
                   inner, innerRes, fsVars, proxyVars, rpcVars, sigVars>>

\* The first step of the serve task.  A task cancelled before its first step never
\* enters the coroutine; otherwise proxy.py 349-367: unlink a stale socket, set
\* _running, start_unix_server binds and listens.
ProxyTaskStep ==
    /\ proxy = "scheduled" /\ running = "none"
    /\ IF proxyMustCancel
       THEN /\ proxy' = "cancelled"
            /\ UNCHANGED <<sock, proxyRunning>>
       ELSE /\ proxy' = "listening"
            /\ sock' = "bound"
            /\ proxyRunning' = TRUE
    /\ UNCHANGED <<callVars, pc, outcomes, retval, initialized, clockVars, running,
                   inner, innerRes, tmpdir, resultFile, proxyMustCancel, contVars,
                   rpcVars, sigVars>>

\* proxy.py 376-434: _handle_client reads one request, dispatches it, writes one
\* response; it runs on the event loop
ProxyHandle ==
    /\ proxy = "listening" /\ proxyRunning /\ running = "none"
    /\ inflight > 0
    /\ inflight' = inflight - 1
    /\ served' = served + 1
    /\ UNCHANGED <<callVars, pc, outcomes, retval, initialized, clockVars, running,
                   inner, innerRes, fsVars, proxyVars, contVars, refused, sigVars>>

\* proxy.py 369-374: CancelledError at serve_forever, then the finally block
ProxyCancelled ==
    /\ proxy = "listening" /\ proxyMustCancel /\ running = "none"
    /\ proxy' = "finished"
    /\ proxyRunning' = FALSE
    /\ sock' = "removed"
    /\ UNCHANGED <<callVars, pc, outcomes, retval, initialized, clockVars, running,
                   inner, innerRes, tmpdir, resultFile, proxyMustCancel, contVars,
                   rpcVars, sigVars>>

\* ---------------------------------------------------------------- serve, awaited on its own
\* proxy.py 97-103, 342-348: await proxy.serve(path)
ServeCall ==
    /\ op = "serve" /\ pc = "start"
    /\ proxy' = "scheduled"
    /\ pc' = "await"
    /\ running' = "none"
    /\ UNCHANGED <<callVars, outcomes, retval, initialized, clockVars, inner, innerRes,
                   fsVars, proxyMustCancel, proxyRunning, contVars, rpcVars, sigVars>>

\* the serve task is cancelled by its owner
ServeCancel ==
    /\ op = "serve" /\ pc = "await"
    /\ proxy \notin ProxyDone
    /\ ~proxyMustCancel
    /\ proxyMustCancel' = TRUE
    /\ UNCHANGED <<callVars, pc, outcomes, retval, initialized, clockVars, running,
                   inner, innerRes, fsVars, proxy, proxyRunning, contVars, rpcVars,
                   sigVars>>

ServeDone ==
    /\ op = "serve" /\ pc = "await"
    /\ proxy \in ProxyDone
    /\ pc' = "done"
    /\ UNCHANGED <<callVars, outcomes, retval, initialized, clockVars, running, inner,
                   innerRes, fsVars, proxyVars, contVars, rpcVars, sigVars>>

\* ---------------------------------------------------------------- wait_for
\* What wait_for hands its caller once the awaited task has ended: the task's
\* result or exception, or TimeoutError when the task ended cancelled.
WaitForOutcome ==
    IF innerRes.kind = "cancelled" THEN Raised("asyncio.TimeoutError", NoMsg) ELSE innerRes

\* wait_for's timeout callback: it runs on the event loop once the deadline has
\* passed and cancels the awaited task.  The task's own first step was queued
\* before it.  Submitted code suspended at an await ends with CancelledError;
\* _execute_in_container can only be suspended at manager.py 376, where the
\* CancelledError is caught (InnerResume).
TimerFire ==
    /\ timerArmed /\ ~timedOut /\ now >= deadline
    /\ pc = "await" /\ running = "none" /\ inner # "ready"
    /\ timedOut' = TRUE
    /\ IF inner = "suspended"
       THEN /\ inner' = "done"
            /\ innerRes' = Cancelled
       ELSE UNCHANGED <<inner, innerRes>>
    /\ UNCHANGED <<callVars, pc, outcomes, retval, initialized, now, timerArmed, deadline,
                   running, fsVars, proxyVars, contVars, rpcVars, sigVars>>

SkillTimeoutMessage == Msg("Skill exceeded timeout of ", timeout, <<>>)
CodeTimeoutMessage == Msg("Code execution exceeded timeout of ", timeout, <<>>)
\* timeout_handler's TimeoutError text, manager.py 607
AlarmMessage == Msg("Code execution timed out after ", timeout, <<"possible infinite loop">>)

\* manager.py 265-280 and 559-571: the except clauses of execute and execute_local
SkillHandle(r) ==
    IF r.kind = "result" THEN r
    ELSE IF IsAsyncioTimeout(r.exc) THEN Raised("SkillTimeoutError", SkillTimeoutMessage)
    ELSE Result(FALSE, r.error)

\* manager.py 782-802: the except clauses of execute_code
CodeHandle(r) ==
    IF r.kind = "result" THEN r
    ELSE IF IsAsyncioTimeout(r.exc) THEN Raised("SkillTimeoutError", CodeTimeoutMessage)
    ELSE IF r.exc = "TimeoutError" THEN Result(FALSE, r.error)
    ELSE Result(FALSE, r.error)

\* manager.py 261-280: wait_for returns or raises, execute returns or raises
ExecuteResume ==
    /\ op = "execute" /\ pc = "await" /\ inner = "done" /\ running = "none"
    /\ outcomes' = Append(outcomes, SkillHandle(WaitForOutcome))
    /\ pc' = "done"
    /\ timerArmed' = FALSE
    /\ UNCHANGED <<callVars, retval, initialized, now, deadline, timedOut, running, inner,
                   innerRes, fsVars, proxyVars, contVars, rpcVars, sigVars>>

\* ---------------------------------------------------------------- execute_local
\* manager.py 404-412
LocalValidate ==
    /\ op = "execute_local" /\ pc = "start"
    /\ IF validation.valid
       THEN /\ pc' = "prepare"
            /\ UNCHANGED outcomes
       ELSE /\ pc' = "done"
            /\ outcomes' = Append(outcomes, Result(FALSE, ValidationMessage(validation.errors)))
    /\ UNCHANGED <<callVars, retval, initialized, clockVars, running, inner, innerRes,
                   fsVars, proxyVars, contVars, rpcVars, sigVars>>

\* manager.py 416-526: compile, exec, look the function up
LocalPrepare ==
    /\ op = "execute_local" /\ pc = "prepare"
    /\ \/ /\ pc' = "call"
          /\ UNCHANGED outcomes
       \/ /\ pc' = "done"
          /\ outcomes' = Append(outcomes, SkillHandle(Raised("Exception", Msg("exec failed", 0, <<>>))))
       \/ /\ pc' = "done"
          /\ outcomes' = Append(outcomes, Result(FALSE, Msg("Function not found after execution", 0, <<>>)))
    /\ UNCHANGED <<callVars, retval, initialized, clockVars, running, inner, innerRes,
                   fsVars, proxyVars, contVars, rpcVars, sigVars>>

\* manager.py 529-571
LocalResume ==
    /\ op = "execute_local" /\ pc = "await" /\ inner = "done" /\ running = "none"
    /\ outcomes' = Append(outcomes, SkillHandle(WaitForOutcome))
    /\ pc' = "done"
    /\ timerArmed' = FALSE
    /\ UNCHANGED <<callVars, retval, initialized, now, deadline, timedOut, running, inner,
                   innerRes, fsVars, proxyVars, contVars, rpcVars, sigVars>>

\* ---------------------------------------------------------------- the submitted code
\* skill_func(api, **params) (manager.py 530) or __adhoc__() (manager.py 735): it
\* returns, raises, enters a synchronous loop, or suspends at an await
CodeStart ==
    /\ op \in {"execute_local", "execute_code"}
    /\ inner = "ready" /\ running = "none"
    /\ \/ /\ inner' = "done"
          /\ innerRes' = Result(TRUE, NoMsg)
          /\ UNCHANGED running
       \/ /\ inner' = "done"
          /\ innerRes' = Raised("Exception", Msg("code raised", 0, <<>>))
          /\ UNCHANGED running
       \/ /\ inner' = "spinning"
          /\ running' = "inner"
          /\ UNCHANGED innerRes
       \/ /\ inner' = "suspended"
          /\ UNCHANGED <<running, innerRes>>
    /\ UNCHANGED <<callVars, pc, outcomes, retval, initialized, clockVars, fsVars,
                   proxyVars, contVars, rpcVars, sigVars>>

\* a long synchronous stretch ends, or a suspended coroutine is resumed and ends
CodeEnd ==
    /\ op \in {"execute_local", "execute_code"}
    /\ \/ inner = "spinning"
       \/ inner = "suspended" /\ running = "none"
    /\ inner' = "done"
    /\ innerRes' = Result(TRUE, NoMsg)
    /\ running' = "none"
    /\ UNCHANGED <<callVars, pc, outcomes, retval, initialized, clockVars, fsVars,
                   proxyVars, contVars, rpcVars, sigVars>>

\* ---------------------------------------------------------------- execute_code
\* manager.py 599-611: install timeout_handler, arm the alarm
CodeArmAlarm ==
    /\ op = "execute_code" /\ pc = "start"
    /\ oldHandler' = handler
    /\ handler' = "timeout_handler"
    /\ alarmArmed' = TRUE
    /\ alarmAt' = now + AlarmTicks(timeout)
    /\ pc' = "validate"
    /\ UNCHANGED <<callVars, outcomes, retval, initialized, clockVars, running, inner,
                   innerRes, fsVars, proxyVars, contVars, rpcVars, stray>>

\* manager.py 613-619: the return is outside the try ... finally
CodeValidate ==
    /\ op = "execute_code" /\ pc = "validate"
    /\ IF validation.valid
       THEN /\ pc' = "prepare"
            /\ UNCHANGED outcomes
       ELSE /\ pc' = "done"
            /\ outcomes' = Append(outcomes, Result(FALSE, ValidationMessage(validation.errors)))
    /\ UNCHANGED <<callVars, retval, initialized, clockVars, running, inner, innerRes,
                   fsVars, proxyVars, contVars, rpcVars, sigVars>>

\* manager.py 636-731: wrap, compile, exec
CodePrepare ==
    /\ op = "execute_code" /\ pc = "prepare"
    /\ \/ /\ pc' = "call"
          /\ UNCHANGED retval
       \/ /\ pc' = "finally"
          /\ retval' = CodeHandle(Raised("Exception", Msg("compile failed", 0, <<>>)))
    /\ UNCHANGED <<callVars, outcomes, initialized, clockVars, running, inner, innerRes,
                   fsVars, proxyVars, contVars, rpcVars, sigVars>>

\* manager.py 734-802
CodeResume ==
    /\ op = "execute_code" /\ pc = "await" /\ inner = "done" /\ running = "none"
    /\ retval' = CodeHandle(WaitForOutcome)
    /\ pc' = "finally"
    /\ timerArmed' = FALSE
    /\ UNCHANGED <<callVars, outcomes, initialized, now, deadline, timedOut, running,
                   inner, innerRes, fsVars, proxyVars, contVars, rpcVars, sigVars>>

\* manager.py 803-808, then the return or raise reaches the caller
CodeFinally ==
    /\ op = "execute_code" /\ pc = "finally"
    /\ alarmArmed' = FALSE
    /\ handler' = IF oldHandler # "None" THEN oldHandler ELSE handler
    /\ outcomes' = Append(outcomes, retval)
    /\ pc' = "done"
    /\ UNCHANGED <<callVars, retval, initialized, clockVars, running, inner, innerRes,
                   fsVars, proxyVars, contVars, rpcVars, oldHandler, alarmAt, stray>>

\* SIGALRM is delivered and timeout_handler (manager.py 606-607) raises
\* TimeoutError in the code that is executing: the submitted code's loop, or,
\* when the call has ended, whatever runs in the process then
AlarmFire ==
    /\ alarmArmed /\ now >= alarmAt
    /\ handler = "timeout_handler"
    /\ alarmArmed' = FALSE
    /\ \/ /\ inner = "spinning"
          /\ inner' = "done"
          /\ innerRes' = Raised("TimeoutError", AlarmMessage)
          /\ running' = "none"
          /\ UNCHANGED stray
       \/ /\ pc = "done"
          /\ stray' = TRUE
          /\ UNCHANGED <<inner, innerRes, running>>
    /\ UNCHANGED <<callVars, pc, outcomes, retval, initialized, clockVars, fsVars,
                   proxyVars, contVars, rpcVars, handler, oldHandler, alarmAt>>

\* ---------------------------------------------------------------- time
\* Time passes while something long runs: the container, the submitted code, or
\* the process after the call.  A due alarm is delivered, and a due timer is run
\* by an idle event loop, before more time passes.
LongRunning ==
    \/ container = "running"
    \/ inner \in {"spinning", "suspended"}
    \/ pc = "done" /\ alarmArmed

Urgent ==
    \/ alarmArmed /\ now >= alarmAt
    \/ timerArmed /\ ~timedOut /\ now >= deadline /\ pc = "await" /\ running = "none"

Tick ==
    /\ now < MaxTime
    /\ LongRunning /\ ~Urgent
    /\ now' = now + 1
    /\ UNCHANGED <<callVars, pc, outcomes, retval, initialized, timerArmed, deadline,
                   timedOut, running, inner, innerRes, fsVars, proxyVars, contVars,
                   rpcVars, sigVars>>

\* ---------------------------------------------------------------- specification
Next ==
    \/ ExecuteInitialize \/ ExecuteValidate \/ WaitFor
    \/ InnerPrepare \/ InnerLaunch \/ InnerWait \/ InnerLogs \/ InnerReadResult
    \/ InnerFinally \/ InnerResume \/ ExecuteResume
    \/ StubSend \/ ContainerWriteResult \/ ContainerExit
    \/ ProxyTaskStep \/ ProxyHandle \/ ProxyCancelled
    \/ ServeCall \/ ServeCancel \/ ServeDone
    \/ TimerFire
    \/ LocalValidate \/ LocalPrepare \/ LocalResume
    \/ CodeStart \/ CodeEnd
    \/ CodeArmAlarm \/ CodeValidate \/ CodePrepare \/ CodeResume \/ CodeFinally
    \/ AlarmFire
    \/ Tick

Spec == Init /\ [][Next]_vars

\* ---------------------------------------------------------------- claims
\* the awaited coroutine was ended by a deadline: cancelled by wait_for's timeout,
\* or interrupted by timeout_handler
TimeoutEnded ==
    \/ innerRes.kind = "cancelled"
    \/ innerRes.kind = "raise" /\ innerRes.exc = "TimeoutError" /\ innerRes.error = AlarmMessage

FailedResult(o) == o.kind = "result" /\ ~o.success

\* C1: a call of execute, execute_local or execute_code that ended because its
\* deadline was exceeded hands its caller a returned ExecutionResult with
\* success = false and an error text; it raises nothing.
C1_TimeoutIsReturned ==
    (op \in {"execute", "execute_local", "execute_code"} /\ pc = "done" /\ TimeoutEnded)
        => /\ Len(outcomes) = 1
           /\ FailedResult(outcomes[1])
           /\ outcomes[1].error # NoMsg

C3_TeardownComplete ==
    (op = "execute" /\ pc = "done")
        => /\ tmpdir # "exists"
           /\ sock # "bound"
           /\ proxy \in {"none"} \cup ProxyDone

\* C3 witness: a request whose workspace and serve task were created has
\* concluded, after its deadline, with an exception in the container run.
C3_Witness ==
    /\ op = "execute" /\ pc = "done"
    /\ tmpdir = "removed" /\ proxy = "cancelled"
    /\ timedOut /\ innerRes.kind = "raise"

\* C4: when execute concludes by timeout or by an exception raised after the
\* container was started, that container is no longer running.
C4_ContainerStopped ==
    (op = "execute" /\ pc = "done" /\ container # "none"
        /\ (timedOut \/ innerRes.kind = "raise"))
        => container = "exited"

\* C5: when execute_code has finished, by any path, no alarm it armed is pending
\* and its timeout handler has not fired after the call.
C5_NoAlarmPending ==
    (op = "execute_code" /\ pc = "done") => (~alarmArmed /\ ~stray)

\* C6: when execute_code has finished, by any path, the SIGALRM handler is the
\* one that was in place before the call.
C6_HandlerRestored ==
    (op = "execute_code" /\ pc = "done") => handler = prevHandler

SameKind(a, b) == a.kind = b.kind /\ a.exc = b.exc

\* C7: an execute_code run ended by the alarm is reported to the caller the way a
\* run ended by the cooperative deadline is: the same kind of outcome.
C7_SameTimeoutKind ==
    (op = "execute_code" /\ pc = "done" /\ TimeoutEnded)
        => /\ Len(outcomes) = 1
           /\ SameKind(outcomes[1], CodeHandle(Raised("asyncio.TimeoutError", NoMsg)))

\* C8: when validation fails, execute and execute_local return a failed result
\* whose error is 'Validation failed: ' followed by every validation error, in
\* order, joined by '; ', and no workspace, serve task, socket or container was
\* created for the request.
C8_ValidationFailsEarly ==
    (op \in {"execute", "execute_local"} /\ pc = "done" /\ ~validation.valid
        /\ (op = "execute" => initialized))
        => /\ Len(outcomes) = 1
           /\ FailedResult(outcomes[1])
           /\ outcomes[1].error.fmt = "Validation failed: "
           /\ Len(outcomes[1].error.parts) = 2 * Len(validation.errors) - 1
           /\ \A i \in 1..Len(validation.errors) :
                 outcomes[1].error.parts[2 * i - 1] = validation.errors[i]
           /\ \A i \in 1..(Len(validation.errors) - 1) :
                 outcomes[1].error.parts[2 * i] = "; "
           /\ tmpdir = "none" /\ proxy = "none" /\ sock = "none" /\ container = "none"

\* C8 witness: a request with two validation errors has been answered.
C8_Witness ==
    /\ op = "execute" /\ pc = "done" /\ initialized
    /\ ~validation.valid /\ Len(validation.errors) = 2
    /\ Len(outcomes) = 1

\* C9: in execute, the proxy server is bound and listening on the request's
\* socket at the moment the container is started.
C9_ListeningBeforeStart ==
    [][(op = "execute" /\ container = "none" /\ container' = "running")
          => (proxy = "listening" /\ sock = "bound")]_vars

\* C10: while execute waits for the container, every RPC request the isolated
\* process makes on the request's socket is accepted and answered: none finds the
\* proxy not accepting, and none is left unanswered when execute concludes.
C10_RequestsServed ==
    op = "execute" => (refused = 0 /\ (pc = "done" => inflight = 0))

\* C11: if the container has not terminated when the request's timeout elapses,
\* execute stops waiting at that deadline and concludes with a timeout outcome:
\* it is never still waiting after the deadline, and a call whose deadline
\* callback ran reports a timeout.
C11_StopsAtDeadline ==
    op = "execute" =>
        /\ (pc = "await" /\ container = "running") => now <= deadline
        /\ (pc = "done" /\ timedOut) =>
              (Len(outcomes) = 1 /\ outcomes[1].error = SkillTimeoutMessage)

AlarmEnded ==
    innerRes.kind = "raise" /\ innerRes.exc = "TimeoutError" /\ innerRes.error = AlarmMessage

C13_ProxyStoppedBeforeRemoval ==
    [][(op = "execute" /\ tmpdir # "removed" /\ tmpdir' = "removed")
          => (proxy \in {"none"} \cup ProxyDone
                /\ (proxy # "none" => proxyMustCancel))]_vars

\* C13 witness: the workspace has just been removed, after the serve task ended.
C13_Witness ==
    /\ op = "execute" /\ pc = "await" /\ inner = "done"
    /\ tmpdir = "removed" /\ proxy = "cancelled"

\* ---------------------------------------------------------------- message framing
\* A JSON object is a sequence of <<key, value>> pairs with distinct keys; its
\* text is the opening brace, the pairs' bytes in order, the closing brace.
MaxKey == 2
MaxVal == 1
MaxPairs == 1

JsonOpen == 123
JsonClose == 125
JsonKeys == 1..MaxKey
JsonVals == 0..MaxVal

Messages ==
    {<<>>} \cup
    {m \in UNION {[1..k -> JsonKeys \X JsonVals] : k \in 1..MaxPairs} :
        \A i, j \in DOMAIN m : i # j => m[i][1] # m[j][1]}

RECURSIVE Flatten(_)
Flatten(m) ==
    IF m = <<>> THEN <<>> ELSE <<m[1][1], m[1][2]>> \o Flatten(Tail(m))

JsonDumps(m) == <<JsonOpen>> \o Flatten(m) \o <<JsonClose>>

RECURSIVE Unflatten(_)
Unflatten(b) ==
    IF b = <<>> THEN <<>> ELSE <<(<<b[1], b[2]>>)>> \o Unflatten(Tail(Tail(b)))

\* json.loads accepts the text of an object and nothing else
JsonValid(data) ==
    /\ Len(data) >= 2
    /\ data[1] = JsonOpen
    /\ data[Len(data)] = JsonClose
    /\ (Len(data) - 2) % 2 = 0
    /\ \A i \in 2..(Len(data) - 1) : data[i] \notin {JsonOpen, JsonClose}
    /\ \A i, j \in 1..((Len(data) - 2) \div 2) : i # j => data[2 * i] # data[2 * j]

JsonLoads(data) == Unflatten(SubSeq(data, 2, Len(data) - 1))

\* length.to_bytes(4, "big") and int.from_bytes(b, "big")
ToBytes4_Little(n) ==
    <<n % 256, (n \div 256) % 256, (n \div 65536) % 256, (n \div 16777216) % 256>>

ToBytes4(n) ==
    <<(n \div 16777216) % 256, (n \div 65536) % 256, (n \div 256) % 256, n % 256>>

FromBytes4(b) == b[1] * 16777216 + b[2] * 65536 + b[3] * 256 + b[4]

EncodeMessage(m) == ToBytes4(Len(JsonDumps(m))) \o JsonDumps(m)

DecodeMessage(data) == JsonLoads(data)

\* what a read_message call hands to its caller
Frame(m) == [ret |-> "msg", msg |-> m, cause |-> "frame"]
ReadNone(c) == [ret |-> "None", msg |-> <<>>, cause |-> c]
EofReturn == ReadNone("eof")

Drop(b, n) == SubSeq(b, n + 1, Len(b))

\* write_message: the whole frame goes to the transport, then drain
WriteMessage ==
    /\ ~wEof
    /\ Len(wSent) < MaxFrames
    /\ \E m \in Messages :
          /\ wOut' = wOut \o EncodeMessage(m)
          /\ wSent' = Append(wSent, m)
    /\ UNCHANGED <<wPeer, wBuf, wEof, wRaw, wReads, wPos, wLen>>

\* a peer that does not use write_message sends a prefix declaring one byte,
\* the largest admitted length, or one byte more, followed by two bytes of body
WriteRaw ==
    /\ wPeer = "raw"
    /\ ~wEof
    /\ ~wRaw
    /\ \E n \in {1, MAX_MESSAGE_SIZE, MAX_MESSAGE_SIZE + 1} :
          wOut' = wOut \o ToBytes4(n) \o <<JsonOpen, JsonClose>>
    /\ wRaw' = TRUE
    /\ UNCHANGED <<wPeer, wBuf, wEof, wSent, wReads, wPos, wLen>>

\* the transport hands the reader the next bytes, in a chunk of any size
Deliver ==
    /\ wOut # <<>>
    /\ \E k \in 1..Len(wOut) :
          /\ wBuf' = wBuf \o SubSeq(wOut, 1, k)
          /\ wOut' = Drop(wOut, k)
    /\ UNCHANGED <<wPeer, wEof, wRaw, wSent, wReads, wPos, wLen>>

CloseStream ==
    /\ ~wEof
    /\ wEof' = TRUE
    /\ UNCHANGED <<wPeer, wOut, wBuf, wRaw, wSent, wReads, wPos, wLen>>

AtEof == wEof /\ wOut = <<>>

\* read_message up to the size check: readexactly(4), then the cap
ReadLength ==
    /\ wPos = "len"
    /\ \/ /\ Len(wBuf) >= 4
          /\ wBuf' = Drop(wBuf, 4)
          /\ LET length == FromBytes4(SubSeq(wBuf, 1, 4)) IN
                IF length > MAX_MESSAGE_SIZE
                THEN /\ wReads' = Append(wReads, ReadNone("oversized"))
                     /\ wPos' = "stopped"
                     /\ wLen' = wLen
                ELSE /\ wLen' = length
                     /\ wPos' = "body"
                     /\ wReads' = wReads
       \/ /\ Len(wBuf) < 4
          /\ AtEof
          /\ wReads' = Append(wReads, IF wBuf = <<>> THEN EofReturn
                                                     ELSE ReadNone("incomplete"))
          /\ wBuf' = <<>>
          /\ wPos' = "stopped"
          /\ wLen' = wLen
    /\ UNCHANGED <<wPeer, wOut, wEof, wRaw, wSent>>

\* read_message from readexactly(length) on
ReadBody ==
    /\ wPos = "body"
    /\ \/ /\ Len(wBuf) >= wLen
          /\ wBuf' = Drop(wBuf, wLen)
          /\ LET data == SubSeq(wBuf, 1, wLen) IN
                IF JsonValid(data)
                THEN /\ wReads' = Append(wReads, Frame(DecodeMessage(data)))
                     /\ wPos' = "len"
                ELSE /\ wReads' = Append(wReads, ReadNone("decode"))
                     /\ wPos' = "stopped"
       \/ /\ Len(wBuf) < wLen
          /\ AtEof
          /\ wReads' = Append(wReads, ReadNone("incomplete"))
          /\ wBuf' = <<>>
          /\ wPos' = "stopped"
    /\ UNCHANGED <<wPeer, wOut, wEof, wRaw, wSent, wLen>>

sandboxVars ==
    <<op, aliased, timeout, validation, prevHandler, pc, outcomes, retval,
      initialized, clockVars, running, inner, innerRes, fsVars, proxyVars,
      rpcVars, contVars, sigVars>>

InitWire ==
    /\ op = "read_message"
    /\ aliased = FALSE
    /\ timeout = 1
    /\ validation = [valid |-> TRUE, errors |-> <<>>]
    /\ prevHandler = "SIG_DFL"
    /\ initialized = FALSE
    /\ CallIdle
    /\ wPeer \in {"writer", "raw"}
    /\ wOut = <<>>
    /\ wBuf = <<>>
    /\ wEof = FALSE
    /\ wRaw = FALSE
    /\ wSent = <<>>
    /\ wReads = <<>>
    /\ wPos = "len"
    /\ wLen = 0
    /\ ConnIdle
    /\ PairIdle
    /\ AlarmIdle
    /\ ResultIdle
    /\ RunsIdle
    /\ JobsIdle

NextWire ==
    /\ \/ WriteMessage
       \/ WriteRaw
       \/ Deliver
       \/ CloseStream
       \/ ReadLength
       \/ ReadBody
    /\ UNCHANGED <<sandboxVars, connVars, pairVars, alarmVars, resultVars, runVars, jobVars>>

SpecWire == InitWire /\ [][NextWire]_vars

\* C14: every stream made of write_message frames is read back by successive
\* read_message calls as the same messages in the same order, however the
\* transport cuts the bytes into chunks; the first None comes after the last
\* frame, at the clean end of the stream.
C14_FramesRoundTrip ==
    wPeer = "writer" =>
        /\ \A i \in DOMAIN wReads :
              wReads[i].ret = "msg" => (i <= Len(wSent) /\ wReads[i].msg = wSent[i])
        /\ wPos = "stopped" =>
              /\ Len(wReads) = Len(wSent) + 1
              /\ wReads[Len(wReads)] = EofReturn
              /\ \A i \in 1..Len(wSent) : wReads[i] = Frame(wSent[i])

C14_Witness ==
    /\ wPeer = "writer"
    /\ wPos = "stopped"
    /\ Len(wSent) = MaxFrames
    /\ Len(wSent[1]) # Len(wSent[2])
    /\ Len(wReads) = MaxFrames + 1
    /\ wReads[1] = Frame(wSent[1])
    /\ wReads[2] = Frame(wSent[2])

\* C15: a frame whose prefix declares more than MAX_MESSAGE_SIZE bytes makes
\* read_message report something its caller can tell from what it reports for
\* a cleanly closed stream, and none of the frame's body is consumed.
C15_OversizedIsAnError ==
    \A i \in DOMAIN wReads :
        wReads[i].cause = "oversized" =>
            /\ wReads[i].ret # EofReturn.ret
            /\ SubSeq(wBuf \o wOut, 1, 2) = <<JsonOpen, JsonClose>>

\* ---------------------------------------------------------------- RPC over a connection
MaxCalls == 2
\* calls whose read of the response failed, after which the skill still calls again
MaxLostCalls == 1

\* the keys "id", "result", "error" of a response object
KeyId == 1
KeyResult == 2
KeyError == 3

\* texts and values carried in a response, each standing for one string or value
TextEmpty == 0          \* "": str(e) of an exception raised without a message
TextGameError == 1      \* str(e) of a game operation's exception that has a message
TextSignature == 2      \* str(e) of the TypeError of a call that does not fit the handler
GameValue == 4          \* the serialized value a game operation returns
RawId == 5              \* the id a raw client puts in its requests

\* the keys of self._methods
DispatchTable ==
    {"get_stats", "get_position", "get_screen", "get_message", "get_inventory",
     "get_visible_monsters", "get_adjacent_monsters", "get_hostile_monsters",
     "get_items_here", "get_food", "get_weapons", "find_stairs", "is_done", "turn",
     "move", "attack", "kick", "wait", "search", "pickup", "drop", "eat", "quaff",
     "read", "wear", "wield", "open_door", "go_up", "go_down", "pray", "engrave",
     "move_to", "find_unexplored", "find_stairs_up", "find_stairs_down",
     "find_nearest_monster", "lookup_monster", "is_dangerous_melee", "is_corpse_safe",
     "is_prayer_safe"}

\* the names the wrappers of docker/api_stub.py pass to _send
ApiStubWrappers ==
    {"get_stats", "get_position", "get_screen", "get_message", "get_inventory",
     "get_visible_monsters", "get_adjacent_monsters", "get_hostile_monsters",
     "get_items_here", "get_food", "get_weapons", "find_stairs", "is_done", "turn",
     "move", "attack", "kick", "wait", "search", "pickup", "drop", "eat", "quaff",
     "read", "wear", "wield", "open_door", "go_up", "go_down", "pray", "engrave",
     "find_path", "find_unexplored", "find_stairs_up", "find_stairs_down",
     "find_nearest_monster", "lookup_monster", "is_dangerous_melee", "is_corpse_safe",
     "is_prayer_safe"}

\* the names the wrappers of the stub in API_STUB_CODE pass to _send
EmbeddedWrappers ==
    {"get_stats", "get_position", "get_screen", "get_screen_lines", "get_message",
     "get_inventory", "get_visible_monsters", "get_adjacent_monsters",
     "get_hostile_monsters", "get_items_here", "get_items_on_map", "get_food",
     "get_weapons", "find_stairs", "is_done", "turn", "move", "attack", "kick", "wait",
     "search", "pickup", "drop", "eat", "quaff", "read", "wear", "wield", "open_door",
     "go_up", "go_down", "pray", "engrave", "move_to", "find_unexplored",
     "find_stairs_up", "find_stairs_down", "find_nearest_monster", "find_nearest_item",
     "lookup_monster", "is_dangerous_melee", "is_corpse_safe", "is_prayer_safe"}

Wrappers(kind) == IF kind = "api_stub.py" THEN ApiStubWrappers ELSE EmbeddedWrappers

\* two entries of the dispatch table: one handler without arguments, one with one
Methods == {"get_stats", "lookup_monster"}
\* "" is what a request without a method dispatches on; "[]" is a method that is a JSON list
MethodNames == {"", "get_stats", "lookup_monster", "bogus", "[]"}
ParamShapes == {"{}", "{name}", "[]", "scalar"}
GameOutcomes == {"value", "raise_text", "raise_empty"}

MethodCode(m) ==
    CASE m = "" -> 0
      [] m = "get_stats" -> 1
      [] m = "lookup_monster" -> 2
      [] m = "bogus" -> 3
      [] m = "get_screen_lines" -> 4
      [] m = "get_items_on_map" -> 5
      [] m = "find_nearest_item" -> 6
      [] m = "find_path" -> 7
      [] OTHER -> 8

\* f"Unknown method: {method}": never empty, and different for different names
UnknownMethodText(m) == 10 + MethodCode(m)

\* message.get("id", 0)
RequestId(req) == IF req.hasId THEN req.id ELSE 0

ObjectRequest(h, n, m, p) ==
    [shape |-> "object", hasId |-> h, id |-> n, method |-> m, params |-> p]
ArrayRequest ==
    [shape |-> "array", hasId |-> FALSE, id |-> 0, method |-> "", params |-> "{}"]
\* every method with and without an id, and every shape of params for the
\* methods of the table
RawRequests ==
    {ArrayRequest}
        \cup {ObjectRequest(h, IF h THEN RawId ELSE 0, m, "{}") :
                 h \in BOOLEAN, m \in MethodNames}
        \cup {ObjectRequest(TRUE, RawId, m, p) : m \in Methods, p \in ParamShapes}
\* the wrappers whose name the table has are all dispatched alike and get_stats
\* stands for them; a wrapper whose name the table lacks is kept as it is
WrapperChoices(kind) == {"get_stats"} \cup (Wrappers(kind) \ DispatchTable)

\* what a skill sends through the stub's wrappers: _send(method, **params)
StubRequests(n) ==
    {ObjectRequest(TRUE, n, m, "{}") : m \in WrapperChoices(cKind)}

\* handler(**params), handler(*params) or handler() binds the lambda's arguments
Fits(m, p) ==
    IF m = "get_stats" THEN p \in {"{}", "[]", "scalar"} ELSE p = "{name}"

Response(id, key, v) == <<(<<KeyId, id>>), (<<key, v>>)>>

HasKey(r, k) == \E i \in DOMAIN r : r[i][1] = k
Get(r, k) == r[CHOOSE i \in DOMAIN r : r[i][1] = k][2]

Escaped == [escaped |-> TRUE, resp |-> <<>>, invoked |-> FALSE, raised |-> FALSE]
Answered(r, inv, rai) == [escaped |-> FALSE, resp |-> r, invoked |-> inv, raised |-> rai]

\* the exception of a raising handler leaves _handle_request
HandleRequest_Reraise(req, g) ==
    IF req.shape # "object" \/ req.method = "[]" THEN Escaped
    ELSE IF req.method \notin DispatchTable
    THEN Answered(Response(RequestId(req), KeyError, UnknownMethodText(req.method)),
                  FALSE, FALSE)
    ELSE IF ~Fits(req.method, req.params)
    THEN [Escaped EXCEPT !.raised = TRUE]
    ELSE IF g = "value"
    THEN Answered(Response(RequestId(req), KeyResult, GameValue), TRUE, FALSE)
    ELSE [Escaped EXCEPT !.invoked = TRUE, !.raised = TRUE]

\* no membership test: an unknown name fails in the table lookup inside the try
HandleRequest_NoTableCheck(req, g) ==
    IF req.shape # "object" \/ req.method = "[]" THEN Escaped
    ELSE IF req.method \notin DispatchTable
    THEN Answered(Response(RequestId(req), KeyError, 20 + MethodCode(req.method)),
                  FALSE, TRUE)
    ELSE IF ~Fits(req.method, req.params)
    THEN Answered(Response(RequestId(req), KeyError, TextSignature), FALSE, TRUE)
    ELSE IF g = "value"
    THEN Answered(Response(RequestId(req), KeyResult, GameValue), TRUE, FALSE)
    ELSE Answered(Response(RequestId(req), KeyError,
                           IF g = "raise_text" THEN TextGameError ELSE TextEmpty),
                  TRUE, TRUE)

\* _handle_request on a decoded message, g being what the game operation does if
\* it is invoked. message.get on a payload that is not an object, and the
\* membership test on an unhashable method, raise before the try is entered.
HandleRequest(req, g) ==
    IF req.shape # "object" \/ req.method = "[]" THEN Escaped
    ELSE IF req.method \notin DispatchTable
    THEN Answered(Response(RequestId(req), KeyError, UnknownMethodText(req.method)),
                  FALSE, FALSE)
    ELSE IF ~Fits(req.method, req.params)
    THEN Answered(Response(RequestId(req), KeyError, TextSignature), FALSE, TRUE)
    ELSE IF g = "value"
    THEN Answered(Response(RequestId(req), KeyResult, GameValue), TRUE, FALSE)
    ELSE Answered(Response(RequestId(req), KeyError,
                           IF g = "raise_text" THEN TextGameError ELSE TextEmpty),
                  TRUE, TRUE)

\* the game operation is only asked what it does when the handler reaches it
Invokes(req) ==
    req.shape = "object" /\ req.method \in DispatchTable /\ Fits(req.method, req.params)

\* one turn of _handle_client's loop on a decoded request: _handle_request, then
\* write_message of its response; an exception ends the loop and closes the writer
HandleClient ==
    /\ sLoop = "serving"
    /\ sIn # <<>>
    /\ \E g \in GameOutcomes :
          /\ ~Invokes(Head(sIn)) => g = "value"
          /\ LET h == HandleRequest(Head(sIn), g) IN
                /\ sLog' = Append(sLog, [req |-> Head(sIn), answered |-> ~h.escaped,
                                         resp |-> h.resp, invoked |-> h.invoked,
                                         raised |-> h.raised, game |-> g])
                /\ IF h.escaped
                   THEN /\ sLoop' = "ended"
                        /\ sEndedBy' = Len(sLog) + 1
                        /\ cEof' = TRUE
                        /\ cOut' = cOut
                   ELSE /\ cOut' = cOut \o ToBytes4(Len(JsonDumps(h.resp))) \o JsonDumps(h.resp)
                        /\ UNCHANGED <<sLoop, sEndedBy, cEof>>
    /\ sIn' = Tail(sIn)
    /\ UNCHANGED <<cKind, cId, cPhase, cLen, cAcc, cDone, cClosed, cBuf>>

\* read_message returns None at the end of the client's stream: break, close
HandleClientEof ==
    /\ sLoop = "serving"
    /\ sIn = <<>>
    /\ cClosed
    /\ sLoop' = "ended"
    /\ cEof' = TRUE
    /\ UNCHANGED <<cKind, cId, cPhase, cLen, cAcc, cDone, cClosed, cOut, cBuf,
                   sIn, sEndedBy, sLog>>

\* a client that frames its own requests sends one of any shape
RawSend ==
    /\ cKind = "raw"
    /\ ~cClosed
    /\ sLoop = "serving"
    /\ Len(sLog) + Len(sIn) < MaxCalls
    /\ \E req \in RawRequests : sIn' = Append(sIn, req)
    /\ UNCHANGED <<cKind, cId, cPhase, cLen, cAcc, cDone, cClosed, cOut, cBuf, cEof,
                   sLoop, sEndedBy, sLog>>

ClientClose ==
    /\ ~cClosed
    /\ cPhase = "idle"
    /\ cClosed' = TRUE
    /\ UNCHANGED <<cKind, cId, cPhase, cLen, cAcc, cDone, cOut, cBuf, cEof,
                   sIn, sLoop, sEndedBy, sLog>>

StubKinds == {"api_stub.py", "API_STUB_CODE"}

\* the socket hands the stub's end the next bytes, in a piece of any size; a
\* piece that arrives before the one before it is read is one longer piece
SocketDeliver ==
    /\ cKind \in StubKinds
    /\ cOut # <<>>
    /\ cBuf = <<>>
    /\ \E k \in 1..Len(cOut) :
          /\ cBuf' = cBuf \o SubSeq(cOut, 1, k)
          /\ cOut' = Drop(cOut, k)
    /\ UNCHANGED <<cKind, cId, cPhase, cLen, cAcc, cDone, cClosed, cEof,
                   sIn, sLoop, sEndedBy, sLog>>

\* the id is kept as it is once it has been used
NextRequestId_Stuck(n) == IF n = 0 THEN 1 ELSE n

\* self._request_id += 1
NextRequestId(n) == n + 1

\* _send up to sendall: the next id, the request on its way to the proxy
SendRequest ==
    /\ cKind \in StubKinds
    /\ cPhase = "idle"
    /\ ~cClosed
    /\ cId < MaxCalls
    /\ Cardinality({i \in DOMAIN cDone : ~cDone[i].decoded}) <= MaxLostCalls
    /\ cId' = NextRequestId(cId)
    /\ \E req \in StubRequests(NextRequestId(cId)) : sIn' = Append(sIn, req)
    /\ cPhase' = "sent"
    /\ UNCHANGED <<cKind, cLen, cAcc, cDone, cClosed, cOut, cBuf, cEof,
                   sLoop, sEndedBy, sLog>>

\* how a call of the stub ends
CallEnd(k, e, d, r, v, n) ==
    [id |-> cId, kind |-> k, exc |-> e, decoded |-> d, resp |-> r, val |-> v, none |-> n]
RaisedClosed == CallEnd("raise", "RuntimeError: Connection closed by proxy", FALSE, <<>>, 0, FALSE)
RaisedJson == CallEnd("raise", "JSONDecodeError", FALSE, <<>>, 0, FALSE)

\* a string is true unless it is empty
Truthy(text) == text # TextEmpty

\* from json.loads to the end of _send
Finish(data) ==
    IF ~JsonValid(data) THEN RaisedJson
    ELSE LET response == JsonLoads(data) IN
        IF HasKey(response, KeyError) /\ Truthy(Get(response, KeyError))
        THEN CallEnd("raise", "RuntimeError: API error", TRUE, response,
                     Get(response, KeyError), FALSE)
        ELSE IF HasKey(response, KeyResult)
        THEN CallEnd("return", "", TRUE, response, Get(response, KeyResult), FALSE)
        ELSE CallEnd("return", "", TRUE, response, 0, TRUE)

\* int.from_bytes(b, "big") of however many bytes recv returned
RECURSIVE FromBytes(_)
FromBytes(b) ==
    IF b = <<>> THEN 0 ELSE FromBytes(SubSeq(b, 1, Len(b) - 1)) * 256 + b[Len(b)]

\* socket.recv(n): blocks until a byte or the end of the stream is there, then
\* returns what is there, n bytes at most
CanRecv == cBuf # <<>> \/ (cEof /\ cOut = <<>>)
Min(a, b) == IF a < b THEN a ELSE b
Recv(n) == SubSeq(cBuf, 1, Min(n, Len(cBuf)))

\* the stub reads the length prefix: recv(4)
RecvLength ==
    /\ cPhase = "sent"
    /\ CanRecv
    /\ LET length_bytes == Recv(4) IN
          /\ cBuf' = Drop(cBuf, Len(length_bytes))
          /\ IF cKind = "api_stub.py" /\ Len(length_bytes) < 4
             THEN /\ cDone' = Append(cDone, RaisedClosed)
                  /\ cPhase' = "idle"
                  /\ UNCHANGED <<cLen, cAcc>>
             ELSE /\ cLen' = FromBytes(length_bytes)
                  /\ cAcc' = <<>>
                  /\ cPhase' = "body"
                  /\ cDone' = cDone
    /\ UNCHANGED <<cKind, cId, cClosed, cOut, cEof, sIn, sLoop, sEndedBy, sLog>>

\* the stub reads the body: api_stub.py loops on recv until it has length bytes,
\* API_STUB_CODE calls recv(length) once
RecvBody ==
    /\ cPhase = "body"
    /\ \/ /\ cKind = "api_stub.py"
          /\ IF Len(cAcc) >= cLen
             THEN /\ cDone' = Append(cDone, Finish(cAcc))
                  /\ cPhase' = "idle"
                  /\ UNCHANGED <<cAcc, cBuf>>
             ELSE /\ CanRecv
                  /\ LET chunk == Recv(cLen - Len(cAcc)) IN
                        /\ cBuf' = Drop(cBuf, Len(chunk))
                        /\ IF chunk = <<>>
                           THEN /\ cDone' = Append(cDone, RaisedClosed)
                                /\ cPhase' = "idle"
                                /\ cAcc' = cAcc
                           ELSE /\ cAcc' = cAcc \o chunk
                                /\ UNCHANGED <<cDone, cPhase>>
       \/ /\ cKind = "API_STUB_CODE"
          /\ cLen = 0 \/ CanRecv
          /\ LET response_data == Recv(cLen) IN
                /\ cBuf' = Drop(cBuf, Len(response_data))
                /\ cDone' = Append(cDone, Finish(response_data))
          /\ cPhase' = "idle"
          /\ cAcc' = cAcc
    /\ UNCHANGED <<cKind, cId, cLen, cClosed, cOut, cEof, sIn, sLoop, sEndedBy, sLog>>

InitRpc ==
    /\ op = "_handle_client"
    /\ aliased = FALSE
    /\ timeout = 1
    /\ validation = [valid |-> TRUE, errors |-> <<>>]
    /\ prevHandler = "SIG_DFL"
    /\ initialized = FALSE
    /\ CallIdle
    /\ WireIdle
    /\ cKind \in StubKinds \cup {"raw"}
    /\ cId = 0
    /\ cPhase = "idle"
    /\ cLen = 0
    /\ cAcc = <<>>
    /\ cDone = <<>>
    /\ cClosed = FALSE
    /\ cOut = <<>>
    /\ cBuf = <<>>
    /\ cEof = FALSE
    /\ sIn = <<>>
    /\ sLoop = "serving"
    /\ sEndedBy = 0
    /\ sLog = <<>>
    /\ PairIdle
    /\ AlarmIdle
    /\ ResultIdle
    /\ RunsIdle
    /\ JobsIdle

NextRpc ==
    /\ \/ HandleClient
       \/ HandleClientEof
       \/ RawSend
       \/ ClientClose
       \/ SocketDeliver
       \/ SendRequest
       \/ RecvLength
       \/ RecvBody
    /\ UNCHANGED <<sandboxVars, wireVars, pairVars, alarmVars, resultVars, runVars, jobVars>>

SpecRpc == InitRpc /\ [][NextRpc]_vars

\* the frames of the responses a log's requests were given, in the log's order
RECURSIVE FramesOf(_)
FramesOf(log) ==
    IF log = <<>> THEN <<>>
    ELSE (IF log[1].answered
          THEN ToBytes4(Len(JsonDumps(log[1].resp))) \o JsonDumps(log[1].resp)
          ELSE <<>>) \o FramesOf(Tail(log))

\* C16: every request the loop decodes, whatever its shape, gets exactly one
\* response with the request's id and exactly one of result and error, the
\* responses go out in the order of the requests, and no request ends the loop.
C16_EveryRequestAnswered ==
    /\ \A i \in DOMAIN sLog :
          /\ sLog[i].answered
          /\ HasKey(sLog[i].resp, KeyId)
          /\ sLog[i].req.hasId => Get(sLog[i].resp, KeyId) = sLog[i].req.id
          /\ HasKey(sLog[i].resp, KeyResult) # HasKey(sLog[i].resp, KeyError)
    /\ cKind = "raw" => cOut = FramesOf(sLog)
    /\ sEndedBy = 0

UnknownMethod(req) ==
    req.shape = "object" /\ req.method \notin DispatchTable /\ req.method # "[]"

\* C17: a request for a method that is not in the dispatch table is answered
\* with {id, error: "Unknown method: <name>"}, no game operation is invoked for
\* it, and it does not end the connection's loop.
C17_UnknownMethodAnswered ==
    \A i \in DOMAIN sLog :
        UnknownMethod(sLog[i].req) =>
            /\ sLog[i].answered
            /\ sLog[i].resp = Response(RequestId(sLog[i].req), KeyError,
                                       UnknownMethodText(sLog[i].req.method))
            /\ ~sLog[i].invoked
            /\ sEndedBy # i
            /\ (sLoop = "ended" /\ i = Len(sLog)) => cClosed

C17_Witness ==
    /\ Len(sLog) = 2
    /\ sLog[1].req.method = "bogus"
    /\ sLog[1].resp = Response(RequestId(sLog[1].req), KeyError, UnknownMethodText("bogus"))
    /\ sLog[2].answered
    /\ HasKey(sLog[2].resp, KeyResult)

\* the handler of a request raises: the arguments do not fit it, or the game
\* operation it invokes raises
HandlerRaises(e) ==
    /\ e.req.shape = "object"
    /\ e.req.method \in DispatchTable
    /\ ~Fits(e.req.method, e.req.params) \/ e.game # "value"

ExceptionText(e) ==
    IF ~Fits(e.req.method, e.req.params) THEN TextSignature
    ELSE IF e.game = "raise_text" THEN TextGameError ELSE TextEmpty

\* C18: when the handler of a request raises, the proxy sends one error
\* response with the request's id and the exception's string, and the loop
\* goes on to serve the next request.
C18_HandlerErrorAnswered ==
    \A i \in DOMAIN sLog :
        HandlerRaises(sLog[i]) =>
            /\ sLog[i].answered
            /\ sLog[i].resp = Response(RequestId(sLog[i].req), KeyError,
                                       ExceptionText(sLog[i]))
            /\ sEndedBy # i
            /\ (sLoop = "ended" /\ i = Len(sLog)) => cClosed

C18_Witness ==
    /\ Len(sLog) = 2
    /\ HandlerRaises(sLog[1])
    /\ sLog[1].invoked
    /\ sLog[1].resp = Response(1, KeyError, TextGameError)
    /\ sLog[2].resp = Response(2, KeyResult, GameValue)
    /\ Len(cDone) = 2
    /\ cDone[1].kind = "raise"
    /\ cDone[2].kind = "return"

\* C19: a call of the stub raises exactly when the proxy's response to its
\* request is an error response, an error with an empty text included, and
\* otherwise returns the response's result.
C19_RaisesIffErrorResponse ==
    \A i \in DOMAIN cDone :
        (cDone[i].decoded /\ cDone[i].id \in DOMAIN sLog
           /\ cDone[i].resp = sLog[cDone[i].id].resp) =>
            /\ cDone[i].kind = "raise" <=> HasKey(sLog[cDone[i].id].resp, KeyError)
            /\ cDone[i].kind = "return" =>
                  /\ ~cDone[i].none
                  /\ cDone[i].val = Get(sLog[cDone[i].id].resp, KeyResult)

\* C20: every call of the stub ends with the result or the error of the
\* response that carries its request's id, however the socket cuts the
\* response bytes into pieces and whatever happened to the calls before it.
C20_CallGetsItsResponse ==
    \A i \in DOMAIN cDone :
        /\ cDone[i].decoded
        /\ Get(cDone[i].resp, KeyId) = cDone[i].id
        /\ cDone[i].id \in DOMAIN sLog
        /\ cDone[i].resp = sLog[cDone[i].id].resp

\* the requests one stub has sent on its connection, in the order sent
StubSent == [i \in 1..(Len(sLog) + Len(sIn)) |->
                IF i <= Len(sLog) THEN sLog[i].req ELSE sIn[i - Len(sLog)]]

\* C21: on one stub's connection the ids of the requests start at 1, each is
\* greater than every earlier one and none is used twice, also after calls
\* that failed.
C21_IdsIncrease ==
    cKind \in StubKinds =>
        /\ \A i \in DOMAIN StubSent : StubSent[i].hasId /\ StubSent[i].id >= 1
        /\ StubSent # <<>> => StubSent[1].id = 1
        /\ \A i, j \in DOMAIN StubSent : i < j => StubSent[i].id < StubSent[j].id
        /\ cId = Len(StubSent)

C21_Witness ==
    /\ cKind \in StubKinds
    /\ Len(cDone) >= 1
    /\ cDone[1].kind = "raise"
    /\ Len(StubSent) = 2
    /\ StubSent[2].id = 2

\* C22: every name a wrapper of either stub sends is a key of the dispatch
\* table, so that no wrapper's call is answered with "Unknown method".
C22_WrappersAreDispatched ==
    cKind \in StubKinds =>
        \A i \in DOMAIN sLog :
            sLog[i].req.method \in Wrappers(cKind) =>
                /\ sLog[i].req.method \in DispatchTable
                /\ sLog[i].resp # Response(RequestId(sLog[i].req), KeyError,
                                          UnknownMethodText(sLog[i].req.method))

\* ---------------------------------------------------------------- execution results
\* ExecutionResult, with the dataclass's defaults for what a caller leaves out
ExecResult(success, result, error, stdout, stderr, actions_taken, turns_elapsed) ==
    [success |-> success, result |-> result, error |-> error, stdout |-> stdout,
     stderr |-> stderr, actions_taken |-> actions_taken, turns_elapsed |-> turns_elapsed]

FailedWith(error) == ExecResult(FALSE, "None", error, NoMsg, NoMsg, 0, 0)

\* dict.get(key, default)
Field(data, key, default) == IF key \in DOMAIN data THEN data[key] ELSE default

NoFile == [exists |-> FALSE, data |-> <<>>]
FileOf(data) == [exists |-> TRUE, data |-> data]

\* result.json is looked for but its content is not used
ReadResult_IgnoreFile(file, exit_code, stdout, stderr) ==
    ExecResult(FALSE, "None", Msg("Container exited with code ", exit_code, <<>>),
               stdout, stderr, 0, 0)

\* manager.py 351-370: the ExecutionResult made from result.json, or from the
\* exit code when there is no result.json
ReadResult(file, exit_code, stdout, stderr) ==
    IF file.exists
    THEN ExecResult(Field(file.data, "success", FALSE),
                    Field(file.data, "result", "None"),
                    Field(file.data, "error", NoMsg),
                    stdout, stderr,
                    Field(file.data, "actions_taken", 0),
                    Field(file.data, "turns_elapsed", 0))
    ELSE ExecResult(FALSE, "None", Msg("Container exited with code ", exit_code, <<>>),
                    stdout, stderr, 0, 0)

\* ---------------------------------------------------------------- two execute requests
MaxDirNames == 2

Requests == {1, 2}
DirNames == 1..MaxDirNames

\* what the container of a skill leaves behind: result.json or none, its exit
\* code, and its logs, which name the skill that ran
SkillRun(file, exit_code) == [file |-> file, exit |-> exit_code]
SkillRuns ==
    {SkillRun(FileOf([success |-> TRUE, result |-> "value", actions_taken |-> 1,
                      turns_elapsed |-> 1]), 0),
     SkillRun(FileOf([success |-> FALSE, error |-> Msg("skill error", 0, <<>>)]), 1),
     SkillRun(NoFile, 1)}
LogsOf(r) == Msg("logs of the container of request ", r, <<>>)

NoDir == [exists |-> FALSE, skill |-> 0, result |-> NoFile]

\* any name, taken or not
FreshNames_Any(dirs) == DOMAIN dirs

\* tempfile.TemporaryDirectory: mkdtemp creates the directory exclusively, so
\* the name it returns is the name of no directory that exists
FreshNames(dirs) == {d \in DOMAIN dirs : ~dirs[d].exists}

\* api.sock inside the workspace
SocketPath(d) == <<d, "api.sock">>

\* execute up to wait_for (manager.py 244-264): a request that fails validation
\* returns at once, any other leaves its container section to the event loop
PairValidate(r) ==
    /\ holder = 0
    /\ reqs[r].pc = "start"
    /\ reqs' = [reqs EXCEPT ![r] =
                  IF reqs[r].valid
                  THEN [@ EXCEPT !.pc = "scheduled"]
                  ELSE [@ EXCEPT !.pc = "done",
                                 !.res = FailedWith(ValidationMessage(<<"e1">>))]]
    /\ UNCHANGED <<fs, holder>>

\* manager.py 295-316: the workspace, skill.py in it, the socket path in it;
\* from here to the await of line 376 nothing gives the event loop back
PairPrepare(r) ==
    /\ holder = 0
    /\ reqs[r].pc = "scheduled"
    /\ \E d \in FreshNames(fs) :
          /\ fs' = [fs EXCEPT ![d] = [exists |-> TRUE, skill |-> r, result |-> NoFile]]
          /\ reqs' = [reqs EXCEPT ![r] = [@ EXCEPT !.pc = "run", !.dir = d,
                                                    !.sock = SocketPath(d)]]
    /\ holder' = r

\* manager.py 341-345 and run_skill.py 144-176: the container runs the skill.py
\* of its volume and writes result.json there, unless it dies before
PairContainer(r) ==
    /\ holder = r
    /\ reqs[r].pc = "run"
    /\ LET d == reqs[r].dir
           w == fs[d].skill
       IN /\ fs' = [fs EXCEPT ![d].result =
                       IF reqs[w].run.file.exists THEN reqs[w].run.file ELSE @]
          /\ reqs' = [reqs EXCEPT ![r] = [@ EXCEPT !.pc = "read", !.ran = w,
                                                    !.exit = reqs[w].run.exit]]
    /\ UNCHANGED holder

\* manager.py 347-376: logs, result.json of the workspace, then the finally
\* clause suspends in await proxy_task
PairRead(r) ==
    /\ holder = r
    /\ reqs[r].pc = "read"
    /\ reqs' = [reqs EXCEPT ![r] =
                  [@ EXCEPT !.pc = "await_proxy",
                            !.res = ReadResult(fs[reqs[r].dir].result, reqs[r].exit,
                                               LogsOf(reqs[r].ran), LogsOf(reqs[r].ran))]]
    /\ fs' = fs
    /\ holder' = 0

\* manager.py 376-378 and the exit of the with block: the workspace is removed
\* and execute returns the result
PairFinish(r) ==
    /\ holder = 0
    /\ reqs[r].pc = "await_proxy"
    /\ fs' = [fs EXCEPT ![reqs[r].dir] = NoDir]
    /\ reqs' = [reqs EXCEPT ![r] = [@ EXCEPT !.pc = "done"]]
    /\ UNCHANGED holder

InitPair ==
    /\ op = "execute"
    /\ aliased = FALSE
    /\ timeout = 1
    /\ validation = [valid |-> TRUE, errors |-> <<>>]
    /\ prevHandler = "SIG_DFL"
    /\ initialized = TRUE
    /\ CallIdle
    /\ WireIdle
    /\ ConnIdle
    /\ reqs \in [Requests -> {[pc |-> "start", valid |-> v, run |-> k, dir |-> 0,
                               sock |-> SocketPath(0), ran |-> 0, exit |-> 0,
                               res |-> FailedWith(NoMsg)] :
                                   v \in BOOLEAN, k \in SkillRuns}]
    /\ fs = [d \in DirNames |-> NoDir]
    /\ holder = 0
    /\ AlarmIdle
    /\ ResultIdle
    /\ RunsIdle
    /\ JobsIdle

NextPair ==
    /\ \E r \in Requests :
          \/ PairValidate(r)
          \/ PairPrepare(r)
          \/ PairContainer(r)
          \/ PairRead(r)
          \/ PairFinish(r)
    /\ UNCHANGED <<sandboxVars, wireVars, connVars, alarmVars, resultVars, runVars, jobVars>>

SpecPair == InitPair /\ [][NextPair]_vars

HasWorkspace(r) == reqs[r].pc \in {"run", "read", "await_proxy"}

\* what a request returns when it is the only one
Alone(r) ==
    IF reqs[r].valid
    THEN ReadResult(reqs[r].run.file, reqs[r].run.exit, LogsOf(r), LogsOf(r))
    ELSE FailedWith(ValidationMessage(<<"e1">>))

\* C23: two execute requests that run at the same time never have the same
\* workspace or the same socket path, and what each returns is what it would
\* return if the other, be it one that fails validation, had not run.
C23_RequestsIsolated ==
    /\ \A r, q \in Requests :
          (r # q /\ HasWorkspace(r) /\ HasWorkspace(q)) =>
              /\ reqs[r].dir # reqs[q].dir
              /\ reqs[r].sock # reqs[q].sock
    /\ \A r \in Requests :
          reqs[r].pc \in {"await_proxy", "done"} => reqs[r].res = Alone(r)

C23_Witness ==
    /\ reqs[1].pc = "await_proxy"
    /\ reqs[2].pc = "await_proxy"
    /\ reqs[1].res.success
    /\ reqs[1].res.actions_taken = 1
    /\ ~reqs[2].res.success

\* ---------------------------------------------------------------- two execute_code calls
Calls == {1, 2}
\* what the submitted code does: it returns, it awaits and then returns, it
\* loops without awaiting, it awaits and then loops
Codes == {"returns", "awaits", "spins", "awaits_then_spins"}

\* the timeout_handler closure of a call
TimeoutHandler(c) == IF c = 1 THEN "timeout_handler_1" ELSE "timeout_handler_2"
HandlerOwner(h) == IF h = "timeout_handler_1" THEN 1 ELSE IF h = "timeout_handler_2" THEN 2 ELSE 0

\* the first stretch of the submitted code, up to its first await if it has one
AfterBegin(code) ==
    CASE code = "returns" -> "returned"
      [] code = "spins" -> "spinning"
      [] OTHER -> "awaiting"

\* the finally clause of manager.py 803-808
Restored(c) == IF calls[c].old # "None" THEN calls[c].old ELSE sigH

\* manager.py 601-611 and on to wait_for at 734: signal.signal returns the
\* handler in place, signal.alarm replaces whatever alarm is pending. wait_for
\* hands the code to a task of its own (the call is suspended before the code
\* starts) or awaits it in place, as the Python version has it.
PairedStart(c) ==
    /\ spinner = 0
    /\ calls[c].pc = "start"
    /\ sigH' = TimeoutHandler(c)
    /\ sigAlarm' = c
    /\ \/ /\ calls' = [calls EXCEPT ![c] = [@ EXCEPT !.pc = "scheduled", !.old = sigH]]
          /\ UNCHANGED spinner
       \/ /\ calls' = [calls EXCEPT ![c] = [@ EXCEPT !.pc = AfterBegin(calls[c].code), !.old = sigH]]
          /\ spinner' = IF calls[c].code = "spins" THEN c ELSE 0

\* the event loop starts the task of the submitted code
PairedBegin(c) ==
    /\ spinner = 0
    /\ calls[c].pc = "scheduled"
    /\ calls' = [calls EXCEPT ![c] = [@ EXCEPT !.pc = AfterBegin(calls[c].code)]]
    /\ spinner' = IF calls[c].code = "spins" THEN c ELSE 0
    /\ UNCHANGED <<sigH, sigAlarm>>

\* what the code awaited is done: the code goes on
PairedAwaited(c) ==
    /\ spinner = 0
    /\ calls[c].pc = "awaiting"
    /\ IF calls[c].code = "awaits"
       THEN /\ calls' = [calls EXCEPT ![c] = [@ EXCEPT !.pc = "returned"]]
            /\ UNCHANGED spinner
       ELSE /\ calls' = [calls EXCEPT ![c] = [@ EXCEPT !.pc = "spinning"]]
            /\ spinner' = c
    /\ UNCHANGED <<sigH, sigAlarm>>

\* manager.py 734-737, 782-787, 803-808: wait_for's timeout cancels code that is
\* awaiting; SkillTimeoutError leaves through the finally clause
PairedWaitForTimeout(c) ==
    /\ spinner = 0
    /\ calls[c].pc = "awaiting"
    /\ calls' = [calls EXCEPT ![c] = [@ EXCEPT !.pc = "done", !.out = "SkillTimeoutError"]]
    /\ sigAlarm' = 0
    /\ sigH' = Restored(c)
    /\ UNCHANGED spinner

\* manager.py 739-780, 803-808: the code returned, the result, the finally clause
PairedEnd(c) ==
    /\ spinner = 0
    /\ calls[c].pc = "returned"
    /\ calls' = [calls EXCEPT ![c] = [@ EXCEPT !.pc = "done", !.out = "result"]]
    /\ sigAlarm' = 0
    /\ sigH' = Restored(c)
    /\ UNCHANGED spinner

\* SIGALRM while code loops without awaiting (the loop's timers cannot run): the
\* handler in place raises TimeoutError in the code that is running, whose call
\* returns a failed result (manager.py 606-607, 788-795) through the finally clause
PairedAlarmFire ==
    /\ spinner # 0
    /\ sigAlarm # 0
    /\ HandlerOwner(sigH) # 0
    /\ calls' = [calls EXCEPT ![spinner] =
                    [@ EXCEPT !.pc = "done", !.out = "TimeoutError", !.by = HandlerOwner(sigH)]]
    /\ sigAlarm' = 0
    /\ sigH' = Restored(spinner)
    /\ spinner' = 0

InitAlarm ==
    /\ op = "execute_code"
    /\ aliased = FALSE
    /\ timeout = 1
    /\ validation = [valid |-> TRUE, errors |-> <<>>]
    /\ prevHandler = "SIG_DFL"
    /\ initialized = FALSE
    /\ CallIdle
    /\ WireIdle
    /\ ConnIdle
    /\ PairIdle
    /\ calls \in [Calls -> {[pc |-> "start", code |-> k, old |-> "None", out |-> "none",
                             by |-> 0] : k \in Codes}]
    /\ sigH \in Handlers
    /\ sigAlarm = 0
    /\ spinner = 0
    /\ ResultIdle
    /\ RunsIdle
    /\ JobsIdle

NextAlarm ==
    /\ \/ \E c \in Calls :
             \/ PairedStart(c)
             \/ PairedBegin(c)
             \/ PairedAwaited(c)
             \/ PairedWaitForTimeout(c)
             \/ PairedEnd(c)
       \/ PairedAlarmFire
    /\ UNCHANGED <<sandboxVars, wireVars, connVars, pairVars, resultVars, runVars, jobVars>>

SpecAlarm == InitAlarm /\ [][NextAlarm]_vars

InFlight(c) == calls[c].pc \in {"scheduled", "awaiting", "spinning"}

\* C24: while two execute_code calls are in flight, each keeps the alarm and
\* the handler it set until its code has finished: the other call's start or
\* end neither cancels nor replaces them.
C24_EachCallKeepsItsAlarm ==
    \A c \in Calls :
        InFlight(c) => (sigAlarm = c /\ sigH = TimeoutHandler(c))

\* ---------------------------------------------------------------- execution results
MaxCount == 1

Printed == Msg("text printed by the code", 0, <<>>)

\* what the skill's coroutine does: return a SkillResult, return another value,
\* or raise
SkillReturns ==
    {[kind |-> "SkillResult", success |-> s, actions |-> a, turns |-> t] :
        s \in BOOLEAN, a \in 0..MaxCount, t \in 0..MaxCount}
    \cup {[kind |-> "value", success |-> TRUE, actions |-> 0, turns |-> 0],
          [kind |-> "raises", success |-> FALSE, actions |-> 0, turns |-> 0]}

\* how the ad-hoc code ends: it returns, it raises, or the alarm's handler
\* raises TimeoutError in it
CodeEnds == {"returns", "raises", "alarm"}

Scenarios ==
    [ret : SkillReturns, codeEnd : CodeEnds, printed : {NoMsg, Printed}]

\* execute_local, manager.py 529-571: the ExecutionResult for what the skill
\* returned or raised
LocalResult(ret) ==
    IF ret.kind = "raises"
    THEN FailedWith(Msg("str(e)", 0, <<>>))
    ELSE IF ret.kind = "SkillResult"
         THEN ExecResult(TRUE, "result_dict", NoMsg, NoMsg, NoMsg, ret.actions, ret.turns)
         ELSE ExecResult(TRUE, "result_dict", NoMsg, NoMsg, NoMsg, 0, 0)

\* execute_skill, run_skill.py 113-141: the dict written to result.json
SkillDict(ret) ==
    IF ret.kind = "SkillResult"
    THEN [success |-> ret.success, result |-> "skill_result_dict",
          actions_taken |-> ret.actions, turns_elapsed |-> ret.turns]
    ELSE IF ret.kind = "value"
         THEN [success |-> TRUE, result |-> "value"]
         ELSE [success |-> FALSE, error |-> Msg("type(e).__name__: str(e)", 0, <<>>),
               traceback |-> "traceback"]

\* main, run_skill.py 144-180: what the runner prints
RunnerStdout(printed, d) ==
    Msg("Executing skill: ", 0,
        <<printed.fmt, IF d.success THEN "Skill completed successfully" ELSE "Skill failed: ">>)

\* the container's leavings: result.json (parses: it holds a JSON object), the
\* exit code and the two log streams
Artifact(ended, file, parses, exit_code, stdout, stderr) ==
    [ended |-> ended, file |-> file, parses |-> parses, exit |-> exit_code,
     stdout |-> stdout, stderr |-> stderr]

\* execute, manager.py 262-280 over _execute_in_container 344-370: json.loads
\* raises on a result.json that is no JSON text, and execute's handler answers
ExecuteResult(a) ==
    IF a.file.exists /\ ~a.parses
    THEN FailedWith(Msg("Expecting value: line 1 column 1 (char 0)", 0, <<>>))
    ELSE ReadResult(a.file, a.exit, a.stdout, a.stderr)

\* execute_code, manager.py 734-802: the ExecutionResult for code that printed
\* `printed` and then ended
CodeResult(codeEnd, printed) ==
    IF codeEnd = "returns"
    THEN ExecResult(TRUE, "result_dict", NoMsg, printed, NoMsg, 0, 0)
    ELSE IF codeEnd = "alarm"
         THEN FailedWith(AlarmMessage)
         ELSE FailedWith(Msg("str(e)", 0, <<>>))

\* execute_local runs the skill
ResultLocal ==
    /\ outLocal = <<>>
    /\ outLocal' = <<LocalResult(scen[1].ret)>>
    /\ UNCHANGED <<scen, art, outExec, outCode>>

\* the container runs run_skill.py to its end
ContainerExits ==
    /\ art = <<>>
    /\ LET d == SkillDict(scen[1].ret)
       IN art' = <<Artifact("exited", FileOf(d), TRUE, IF d.success THEN 0 ELSE 1,
                            RunnerStdout(scen[1].printed, d), NoMsg)>>
    /\ UNCHANGED <<scen, outLocal, outExec, outCode>>

\* the container is killed at its memory limit: before write_result, or
\* inside write_text after the file was opened
ContainerKilled ==
    /\ art = <<>>
    /\ \E file \in {NoFile, FileOf(<<>>)} :
           art' = <<Artifact("killed", file, FALSE, 137,
                             Msg("Executing skill: ", 0, <<scen[1].printed.fmt>>), NoMsg)>>
    /\ UNCHANGED <<scen, outLocal, outExec, outCode>>

\* execute reads the logs and result.json of the exited container
ResultExecute ==
    /\ art # <<>>
    /\ outExec = <<>>
    /\ outExec' = <<ExecuteResult(art[1])>>
    /\ UNCHANGED <<scen, art, outLocal, outCode>>

\* execute_code runs the ad-hoc code
ResultCode ==
    /\ outCode = <<>>
    /\ outCode' = <<CodeResult(scen[1].codeEnd, scen[1].printed)>>
    /\ UNCHANGED <<scen, art, outLocal, outExec>>

InitResult ==
    /\ \E sc \in Scenarios : scen = <<sc>>
    /\ art = <<>>
    /\ outLocal = <<>>
    /\ outExec = <<>>
    /\ outCode = <<>>
    /\ op = "execute"
    /\ aliased = FALSE
    /\ timeout = 1
    /\ validation = [valid |-> TRUE, errors |-> <<>>]
    /\ prevHandler = "SIG_DFL"
    /\ initialized = FALSE
    /\ CallIdle
    /\ WireIdle
    /\ ConnIdle
    /\ PairIdle
    /\ AlarmIdle
    /\ RunsIdle
    /\ JobsIdle

NextResult ==
    /\ \/ ResultLocal
       \/ ContainerExits
       \/ ContainerKilled
       \/ ResultExecute
       \/ ResultCode
    /\ UNCHANGED <<sandboxVars, wireVars, connVars, pairVars, alarmVars, runVars, jobVars>>

SpecResult == InitResult /\ [][NextResult]_vars

\* C25: for the same skill, run to its end in both modes, execute_local and
\* execute return results with the same success flag, the same actions_taken
\* and the same turns_elapsed
C25_LocalMatchesContainer ==
    (outLocal # <<>> /\ outExec # <<>> /\ art[1].ended = "exited") =>
        /\ outLocal[1].success = outExec[1].success
        /\ outLocal[1].actions_taken = outExec[1].actions_taken
        /\ outLocal[1].turns_elapsed = outExec[1].turns_elapsed

\* C26: a failed result of execute_code holds the text the code had printed,
\* and a failed result of execute holds the container logs that were read
C26_FailedResultKeepsOutput ==
    /\ (outCode # <<>> /\ ~outCode[1].success) => outCode[1].stdout = scen[1].printed
    /\ (outExec # <<>> /\ ~outExec[1].success) =>
           (outExec[1].stdout = art[1].stdout /\ outExec[1].stderr = art[1].stderr)

ResultDefault(key) ==
    CASE key = "success" -> FALSE
      [] key = "result" -> "None"
      [] key = "error" -> NoMsg
      [] OTHER -> 0

MaxUsers == 2
MaxCreates == 2
MaxStops == 2
MaxPerUser == 1
MaxTotalRuns == 1

Users == 1..MaxUsers

\* a create_and_start_run call and the run id it generates are one number
Runs == 1..MaxCreates

\* InProcessBackend.get_active_run_ids: the runners held whose is_running is true
ActiveRunIds == {r \in Runs : runners[r] = "running"}

\* InProcessBackend.is_running
IsRunning(r) == runners[r] = "running"

\* the owner is compared before the backend is asked
StopStatus_OwnerFirst(r, u) ==
    IF run_owners[r] # u THEN 403
    ELSE IF ~IsRunning(r) THEN 404
    ELSE 200

\* RunManager.stop_run, lines 196-201: the status of the call
StopStatus(r, u) ==
    IF ~IsRunning(r) THEN 404
    ELSE IF run_owners[r] # u THEN 403
    ELSE 200

\* the owner's entry is kept
Forget_Keep(owners, r) == owners

\* RunManager._on_run_finished: the ownership entries of run r are dropped
Forget(owners, r) == [owners EXCEPT ![r] = 0]

\* a discard that leaves the set as it is
Discard_Nothing(byUser, u, r) == byUser

\* RunManager._on_run_finished, lines 138-139, and stop_run, lines 208-209:
\* the run is discarded from the one user's set
Discard(byUser, u, r) == [v \in Users |-> IF v = u THEN byUser[v] \ {r} ELSE byUser[v]]

\* create_and_start_run up to its first await: the two limit checks, then the
\* call of the backend's start_run, which awaits the user's record
CreateCheck(c, u) ==
    /\ creates[c].pc = "idle"
    /\ stopAll.pc = "idle"
    /\ IF Cardinality(user_runs[u]) >= MaxPerUser
       THEN creates' = [creates EXCEPT ![c] = [pc |-> "429 per user", user |-> u]]
       ELSE IF Cardinality(ActiveRunIds) >= MaxTotalRuns
            THEN creates' = [creates EXCEPT ![c] = [pc |-> "429 total", user |-> u]]
            ELSE creates' = [creates EXCEPT ![c] = [pc |-> "get_user", user |-> u]]
    /\ UNCHANGED <<runners, run_owners, user_runs, stopLog, stopAll>>

\* InProcessBackend.start_run after get_user: no stored key is HTTP 400,
\* otherwise the runner is made and its start awaits the repository
CreateGotUser(c) ==
    /\ creates[c].pc = "get_user"
    /\ \E hasKey \in BOOLEAN :
           creates' = [creates EXCEPT ![c].pc = IF hasKey THEN "runner.start" ELSE "400"]
    /\ UNCHANGED <<runners, run_owners, user_runs, stopLog, stopAll>>

\* runner.start returns with the run loop's task created; start_run keeps the
\* runner and create_and_start_run records the ownership, with no await between
CreateStarted(c) ==
    /\ creates[c].pc = "runner.start"
    /\ creates' = [creates EXCEPT ![c].pc = "returned"]
    /\ runners' = [runners EXCEPT ![c] = "running"]
    /\ run_owners' = [run_owners EXCEPT ![c] = creates[c].user]
    /\ user_runs' = [user_runs EXCEPT ![creates[c].user] = @ \cup {c}]
    /\ UNCHANGED <<stopLog, stopAll>>

\* the run loop of a held runner ends by itself: _running is cleared and the
\* on_finished callback drops the ownership and the runner
RunFinished(r) ==
    /\ runners[r] = "running"
    /\ runners' = [runners EXCEPT ![r] = "none"]
    /\ run_owners' = Forget(run_owners, r)
    /\ user_runs' = Discard(user_runs, run_owners[r], r)
    /\ UNCHANGED <<creates, stopLog, stopAll>>

\* RunManager.stop_run up to its first await: 404, 403, or the backend's
\* stop_run pops the runner, clears _running and cancels the task
StopRun(r, u) ==
    /\ Len(stopLog) < MaxStops
    /\ stopAll.pc = "idle"
    /\ stopLog' = Append(stopLog, [run |-> r, user |-> u, status |-> StopStatus(r, u)])
    /\ IF StopStatus(r, u) = 200
       THEN runners' = [runners EXCEPT ![r] = "cancelling"]
       ELSE UNCHANGED runners
    /\ UNCHANGED <<creates, run_owners, user_runs, stopAll>>

\* the cancelled run loop finalizes and its on_finished callback runs
StopFinalized(r) ==
    /\ runners[r] = "cancelling"
    /\ runners' = [runners EXCEPT ![r] = "cancelled"]
    /\ run_owners' = Forget(run_owners, r)
    /\ user_runs' = Discard(user_runs, run_owners[r], r)
    /\ UNCHANGED <<creates, stopLog, stopAll>>

\* runner.stop returns and stop_run drops the ownership once more, for the
\* caller, who was found to be the owner
StopReturned(r) ==
    /\ runners[r] = "cancelled"
    /\ stopAll.awaiting # r
    /\ runners' = [runners EXCEPT ![r] = "none"]
    /\ run_owners' = Forget(run_owners, r)
    /\ user_runs' = Discard(user_runs, creates[r].user, r)
    /\ UNCHANGED <<creates, stopLog, stopAll>>

\* the loop gives up at the first failure
AfterFailure_GiveUp(todo) == {}

\* stop_all, lines 216-219: the exception of one stop_run is logged and the
\* loop goes on with the runs that are left
AfterFailure(todo) == todo

\* no create_and_start_run call is in progress
NoCreateInProgress ==
    \A c \in Runs : creates[c].pc \notin {"get_user", "runner.start"}

\* stop_all begins, at shutdown, when the requests have been served: it lists
\* the runs the backend reports active
StopAllBegin ==
    /\ stopAll.pc = "idle"
    /\ NoCreateInProgress
    /\ \A r \in Runs : runners[r] \in {"none", "running"}
    /\ stopAll' = [stopAll EXCEPT !.pc = "stopping", !.listed = ActiveRunIds,
                                  !.todo = ActiveRunIds]
    /\ UNCHANGED <<creates, runners, run_owners, user_runs, stopLog>>

\* stop_all calls the backend's stop_run for the next run: the runner is
\* popped and _running cleared (a runner whose loop has ended meanwhile is not
\* there any more); then agent.stop raises, and the loop goes on while the run
\* loop ends by itself, or the task is cancelled and awaited
StopAllStop(r) ==
    /\ stopAll.pc = "stopping"
    /\ stopAll.awaiting = 0
    /\ r \in stopAll.todo
    /\ runners' = [runners EXCEPT ![r] = IF @ = "running" THEN "cancelling" ELSE @]
    /\ \E fails \in BOOLEAN :
           stopAll' = [stopAll EXCEPT
                          !.tried = @ \cup {r},
                          !.failed = IF fails THEN @ \cup {r} ELSE @,
                          !.todo = IF fails THEN AfterFailure(@ \ {r}) ELSE @ \ {r},
                          !.awaiting = IF fails \/ runners[r] # "running" THEN 0 ELSE r]
    /\ UNCHANGED <<creates, run_owners, user_runs, stopLog>>

\* the awaited task has finalized: the backend's stop_run returns to stop_all
StopAllAwaited(r) ==
    /\ stopAll.awaiting = r
    /\ runners[r] = "cancelled"
    /\ runners' = [runners EXCEPT ![r] = "none"]
    /\ stopAll' = [stopAll EXCEPT !.awaiting = 0]
    /\ UNCHANGED <<creates, run_owners, user_runs, stopLog>>

\* stop_all, lines 221-222: both ownership maps are cleared
StopAllClear ==
    /\ stopAll.pc = "stopping"
    /\ stopAll.awaiting = 0
    /\ stopAll.todo = {}
    /\ stopAll' = [stopAll EXCEPT !.pc = "done"]
    /\ run_owners' = [r \in Runs |-> 0]
    /\ user_runs' = [u \in Users |-> {}]
    /\ UNCHANGED <<creates, runners, stopLog>>

InitRuns ==
    /\ creates = [c \in Runs |-> [pc |-> "idle", user |-> 0]]
    /\ runners = [r \in Runs |-> "none"]
    /\ run_owners = [r \in Runs |-> 0]
    /\ user_runs = [u \in Users |-> {}]
    /\ stopLog = <<>>
    /\ stopAll = [pc |-> "idle", listed |-> {}, todo |-> {}, tried |-> {}, failed |-> {},
                  awaiting |-> 0]
    /\ op = "execute"
    /\ aliased = FALSE
    /\ timeout = 1
    /\ validation = [valid |-> TRUE, errors |-> <<>>]
    /\ prevHandler = "SIG_DFL"
    /\ initialized = FALSE
    /\ CallIdle
    /\ WireIdle
    /\ ConnIdle
    /\ PairIdle
    /\ AlarmIdle
    /\ ResultIdle
    /\ JobsIdle

NextRuns ==
    /\ \/ \E c \in Runs, u \in Users : CreateCheck(c, u)
       \/ \E c \in Runs : CreateGotUser(c)
       \/ \E c \in Runs : CreateStarted(c)
       \/ \E r \in Runs : RunFinished(r)
       \/ \E r \in Runs, u \in Users : StopRun(r, u)
       \/ \E r \in Runs : StopFinalized(r)
       \/ \E r \in Runs : StopReturned(r)
       \/ StopAllBegin
       \/ \E r \in Runs : StopAllStop(r)
       \/ \E r \in Runs : StopAllAwaited(r)
       \/ StopAllClear
    /\ UNCHANGED <<sandboxVars, wireVars, connVars, pairVars, alarmVars, resultVars, jobVars>>

SpecRuns == InitRuns /\ [][NextRuns]_vars

\* C28: no user ever owns more than max_runs_per_user runs, whatever
\* create_and_start_run calls are in progress
C28_PerUserLimit ==
    \A u \in Users : Cardinality(user_runs[u]) <= MaxPerUser

\* C29: while every user is within the per-user limit, the backend never
\* reports more than max_total_runs active runs, whatever create_and_start_run
\* calls are in progress
C29_GlobalLimit ==
    (\A u \in Users : Cardinality(user_runs[u]) <= MaxPerUser) =>
        Cardinality(ActiveRunIds) <= MaxTotalRuns

\* C30: a stop_run call for a run the backend does not report running gets
\* 404, whoever calls; for a running run of another owner it gets 403; in both
\* cases no runner is stopped and the ownership entries stay as they were
C30_StopRefused ==
    [][\A r \in Runs, u \in Users :
           StopRun(r, u) =>
               LET status == stopLog'[Len(stopLog')].status
               IN /\ ~IsRunning(r) => status = 404
                  /\ (IsRunning(r) /\ run_owners[r] # u) => status = 403
                  /\ status \in {403, 404} =>
                         UNCHANGED <<runners, run_owners, user_runs>>]_vars

C30_Witness ==
    /\ Len(stopLog) = 2
    /\ stopLog[1].status = 403
    /\ stopLog[2].status = 404
    /\ stopLog[2].run = stopLog[1].run
    /\ stopLog[2].user = stopLog[1].user
    /\ run_owners[stopLog[2].run] # stopLog[2].user

\* a run that was started and is neither held by the backend nor being stopped:
\* its loop ended and the on-finished callback ran, or its owner's stop_run
\* returned
Ended(r) == creates[r].pc = "returned" /\ runners[r] = "none"

\* C31: a run that its owner stopped, or whose on-finished callback ran, has no
\* owner, is in no user's active runs and does not count against its user's
\* limit; the stop cleanup that follows the callback changes no ownership entry
C31_EndedRunIsForgotten ==
    /\ [](\A r \in Runs :
              Ended(r) =>
                  /\ run_owners[r] = 0
                  /\ \A u \in Users : r \notin user_runs[u]
                  /\ Cardinality(user_runs[creates[r].user] \ {r}) < MaxPerUser =>
                         Cardinality(user_runs[creates[r].user]) < MaxPerUser)
    /\ [][\A r \in Runs : StopReturned(r) => UNCHANGED <<run_owners, user_runs>>]_vars

C31_Witness ==
    \E r1, r2 \in Runs :
        /\ r1 # r2
        /\ Ended(r1)
        /\ \E i \in DOMAIN stopLog : stopLog[i].run = r1 /\ stopLog[i].status = 200
        /\ creates[r2].pc = "returned"
        /\ creates[r2].user = creates[r1].user
        /\ runners[r2] = "running"
        /\ run_owners[r2] = creates[r1].user

\* C32: when stop_all has returned it has tried every run the backend listed
\* as active, whichever of them failed to stop, no run has an owner, no user
\* has active runs and the backend reports no active run
C32_StopAllStopsAll ==
    stopAll.pc = "done" =>
        /\ stopAll.listed \subseteq stopAll.tried
        /\ \A r \in Runs : run_owners[r] = 0
        /\ \A u \in Users : user_runs[u] = {}
        /\ Cardinality(ActiveRunIds) = 0

C32_Witness ==
    /\ stopAll.pc = "done"
    /\ Cardinality(stopAll.listed) = 2
    /\ Cardinality(stopAll.failed) = 1
    /\ stopAll.tried = stopAll.listed

\* ---------------------------------------------------------------- the worker backend
MaxRestarts == 1
MaxMonitorErrors == 1

\* a create_and_start_run call, its run id and its job are one number
JobRuns == {1, 2}

Terminal == {"stopped", "error", "completed"}

IdleStop == [pc |-> "none", by |-> 0]

\* PostgresRepository.list_runs_by_status(["running", "starting"])
ListedActive == {r \in JobRuns : db[r] \in {"running", "starting"}}

\* the rows are not filtered by status
ListedActive_All == {r \in JobRuns : db[r] # "none"}

\* the web server is serving requests: stop_all has not begun in this process
Serving == stopAll.pc = "idle"

\* RunManager.create_and_start_run up to its first await, for a call that
\* passes both limit checks (a refused call changes nothing): then
\* ProcrastinateBackend.start_run awaits create_run for the placeholder
JobCreateCheck(c, u) ==
    /\ Serving
    /\ creates[c].pc = "idle"
    /\ Cardinality(user_runs[u]) < MaxPerUser
    /\ Cardinality(active_runs) < MaxTotalRuns
    /\ creates' = [creates EXCEPT ![c] = [pc |-> "create_run", user |-> u]]
    /\ UNCHANGED <<run_owners, user_runs, stopLog, stopAll, jobVars>>

\* the placeholder record is written with status "starting" and defer_async is
\* awaited, or create_run raises and so does create_and_start_run
JobCreateRecord(c) ==
    /\ creates[c].pc = "create_run"
    /\ \E ok \in BOOLEAN :
           IF ok
           THEN /\ db' = [db EXCEPT ![c] = "starting"]
                /\ creates' = [creates EXCEPT ![c].pc = "defer_async"]
           ELSE /\ creates' = [creates EXCEPT ![c].pc = "failed"]
                /\ UNCHANGED db
    /\ UNCHANGED <<run_owners, user_runs, stopLog, stopAll, queued, active_runs, worker, stops,
                   monitor, finishedCalls, restarts>>

\* the job is enqueued, the run is tracked and create_and_start_run records
\* the ownership; or defer_async raises and so does create_and_start_run
JobCreateDeferred(c) ==
    /\ creates[c].pc = "defer_async"
    /\ \E ok \in BOOLEAN :
           IF ok
           THEN /\ queued' = queued \cup {c}
                /\ active_runs' = active_runs \cup {c}
                /\ run_owners' = [run_owners EXCEPT ![c] = creates[c].user]
                /\ user_runs' = [user_runs EXCEPT ![creates[c].user] = @ \cup {c}]
                /\ creates' = [creates EXCEPT ![c].pc = "returned"]
           ELSE /\ creates' = [creates EXCEPT ![c].pc = "failed"]
                /\ UNCHANGED <<queued, active_runs, run_owners, user_runs>>
    /\ UNCHANGED <<stopLog, stopAll, db, worker, stops, monitor, finishedCalls, restarts>>

\* a worker picks the job up: WebAgentRunner.start awaits get_run
WorkerPick(r) ==
    /\ r \in queued
    /\ queued' = queued \ {r}
    /\ worker' = [worker EXCEPT ![r] = "get_run"]
    /\ UNCHANGED <<creates, run_owners, user_runs, stopLog, stopAll, db, active_runs, stops,
                   monitor, finishedCalls, restarts>>

\* WebAgentRunner.start, lines 81-98: the record read is given status
\* "running", or a new record is made
WorkerGotRun(r) ==
    /\ worker[r] = "get_run"
    /\ worker' = [worker EXCEPT ![r] = IF db[r] # "none" THEN "update_run" ELSE "create_run"]
    /\ UNCHANGED <<creates, run_owners, user_runs, stopLog, stopAll, db, queued, active_runs,
                   stops, monitor, finishedCalls, restarts>>

\* update_run or create_run writes the record, status "running"; the run loop
\* is started
WorkerStarted(r) ==
    /\ worker[r] \in {"update_run", "create_run"}
    /\ db' = [db EXCEPT ![r] = "running"]
    /\ worker' = [worker EXCEPT ![r] = "loop"]
    /\ UNCHANGED <<creates, run_owners, user_runs, stopLog, stopAll, queued, active_runs,
                   stops, monitor, finishedCalls, restarts>>

\* a turn of the run loop: _update_run_stats writes the runner's record, whose
\* status is "running"
WorkerTurn(r) ==
    /\ worker[r] = "loop"
    /\ db' = [db EXCEPT ![r] = "running"]
    /\ UNCHANGED <<creates, run_owners, user_runs, stopLog, stopAll, queued, active_runs,
                   worker, stops, monitor, finishedCalls, restarts>>

\* the run loop ends: _finalize_run writes status "stopped"
WorkerFinalize(r) ==
    /\ worker[r] = "loop"
    /\ db' = [db EXCEPT ![r] = "stopped"]
    /\ worker' = [worker EXCEPT ![r] = "done"]
    /\ UNCHANGED <<creates, run_owners, user_runs, stopLog, stopAll, queued, active_runs,
                   stops, monitor, finishedCalls, restarts>>

\* RunManager.stop_run, lines 196-201, over ProcrastinateBackend.is_running
JobStopStatus(r, u) ==
    IF r \notin active_runs THEN 404
    ELSE IF run_owners[r] # u THEN 403
    ELSE 200

\* RunManager.stop_run by the owner of a tracked run (another call is refused
\* with 404 or 403 and changes nothing): the backend's stop_run untracks the
\* run and awaits get_run
JobStopRun(r, u) ==
    /\ Serving
    /\ stops[r].pc \in {"none", "done"}
    /\ JobStopStatus(r, u) = 200
    /\ active_runs' = active_runs \ {r}
    /\ stops' = [stops EXCEPT ![r] = [pc |-> "get_run", by |-> u]]
    /\ UNCHANGED <<creates, run_owners, user_runs, stopLog, stopAll, db, queued, worker,
                   monitor, finishedCalls, restarts>>

\* the backend's stop_run has returned: RunManager.stop_run drops the caller's
\* ownership entries, stop_all goes on
StopDone(r) ==
    /\ stops' = [stops EXCEPT ![r].pc = "done"]
    /\ IF stops[r].by # 0
       THEN /\ run_owners' = Forget(run_owners, r)
            /\ user_runs' = Discard(user_runs, stops[r].by, r)
            /\ UNCHANGED stopAll
       ELSE /\ stopAll' = [stopAll EXCEPT !.awaiting = 0]
            /\ UNCHANGED <<run_owners, user_runs>>

\* ProcrastinateBackend.stop_run, lines 79-80: a record that is there and not
\* terminal is to be written, otherwise the call returns
JobStopRead(r) ==
    /\ stops[r].pc = "get_run"
    /\ IF db[r] # "none" /\ db[r] \notin Terminal
       THEN /\ stops' = [stops EXCEPT ![r].pc = "update_run"]
            /\ UNCHANGED <<run_owners, user_runs, stopAll>>
       ELSE StopDone(r)
    /\ UNCHANGED <<creates, stopLog, db, queued, active_runs, worker, monitor, finishedCalls,
                   restarts>>

\* ProcrastinateBackend.stop_run, lines 92-95: status "stopped" is written
JobStopUpdate(r) ==
    /\ stops[r].pc = "update_run"
    /\ db' = [db EXCEPT ![r] = "stopped"]
    /\ StopDone(r)
    /\ UNCHANGED <<creates, stopLog, queued, active_runs, worker, monitor, finishedCalls,
                   restarts>>

\* no status makes the monitor untrack a run
MonitorRemoves_Never(status) == FALSE

\* _check_completed_runs, lines 136-139: the statuses at which a run is untracked
MonitorRemoves(status) == status \in Terminal

\* the monitor wakes from its sleep; _check_completed_runs lists the tracked runs
MonitorWake ==
    /\ stopAll.pc # "done"
    /\ monitor.pc = "sleep"
    /\ active_runs # {}
    /\ monitor' = [monitor EXCEPT !.pc = "pass", !.todo = active_runs]
    /\ UNCHANGED <<creates, run_owners, user_runs, stopLog, stopAll, db, queued, active_runs,
                   worker, stops, finishedCalls, restarts>>

\* _check_completed_runs reads the next run: one with a terminal status is
\* untracked and the callback, RunManager._on_run_finished, is invoked; or
\* get_run raises, which ends this pass
MonitorCheck(r) ==
    /\ stopAll.pc # "done"
    /\ monitor.pc = "pass"
    /\ r \in monitor.todo
    /\ \E ok \in {TRUE} \cup {FALSE : e \in {0} \cap (0..(MaxMonitorErrors - monitor.errors - 1))} :
           IF ok
           THEN /\ monitor' = [monitor EXCEPT
                                  !.todo = @ \ {r},
                                  !.pc = IF monitor.todo = {r} THEN "sleep" ELSE "pass"]
                /\ IF MonitorRemoves(db[r])
                   THEN /\ active_runs' = active_runs \ {r}
                        /\ finishedCalls' = [finishedCalls EXCEPT ![r] = @ + 1]
                        /\ run_owners' = Forget(run_owners, r)
                        /\ user_runs' = Discard(user_runs, run_owners[r], r)
                   ELSE UNCHANGED <<active_runs, finishedCalls, run_owners, user_runs>>
           ELSE /\ monitor' = [monitor EXCEPT !.todo = {}, !.pc = "sleep", !.errors = @ + 1]
                /\ UNCHANGED <<active_runs, finishedCalls, run_owners, user_runs>>
    /\ UNCHANGED <<creates, stopLog, stopAll, db, queued, worker, stops, restarts>>

\* stop_all begins, at shutdown, when the requests have been served: it lists
\* the tracked runs
JobStopAllBegin ==
    /\ stopAll.pc = "idle"
    /\ \A c \in JobRuns : creates[c].pc \notin {"create_run", "defer_async"}
    /\ \A r \in JobRuns : stops[r].pc \in {"none", "done"}
    /\ stopAll' = [stopAll EXCEPT !.pc = "stopping", !.todo = active_runs]
    /\ UNCHANGED <<creates, run_owners, user_runs, stopLog, jobVars>>

\* stop_all calls the backend's stop_run for the next run
JobStopAllStop(r) ==
    /\ stopAll.pc = "stopping"
    /\ stopAll.awaiting = 0
    /\ r \in stopAll.todo
    /\ stops[r].pc \in {"none", "done"}
    /\ active_runs' = active_runs \ {r}
    /\ stops' = [stops EXCEPT ![r] = [pc |-> "get_run", by |-> 0]]
    /\ stopAll' = [stopAll EXCEPT !.todo = @ \ {r}, !.awaiting = r]
    /\ UNCHANGED <<creates, run_owners, user_runs, stopLog, db, queued, worker, monitor,
                   finishedCalls, restarts>>

\* stop_all clears both ownership maps
JobStopAllClear ==
    /\ stopAll.pc = "stopping"
    /\ stopAll.awaiting = 0
    /\ stopAll.todo = {}
    /\ stopAll' = [stopAll EXCEPT !.pc = "done"]
    /\ run_owners' = [r \in JobRuns |-> 0]
    /\ user_runs' = [u \in Users |-> {}]
    /\ UNCHANGED <<creates, stopLog, jobVars>>

\* the web server is started again after its shutdown, while workers go on:
\* the maps of the new RunManager and backend are empty, and recover_state
\* fills them from the runs whose status is "running" or "starting" (their
\* user_id is the creator's)
Restart ==
    /\ restarts < MaxRestarts
    /\ stopAll.pc = "done"
    /\ restarts' = restarts + 1
    /\ run_owners' = [r \in JobRuns |-> IF r \in ListedActive THEN creates[r].user ELSE 0]
    /\ user_runs' = [u \in Users |-> {r \in ListedActive : creates[r].user = u}]
    /\ active_runs' = ListedActive
    /\ monitor' = [pc |-> "sleep", todo |-> {}, errors |-> monitor.errors]
    /\ stopAll' = [stopAll EXCEPT !.pc = "idle"]
    /\ UNCHANGED <<creates, stopLog, db, queued, worker, stops, finishedCalls>>

InitJobs ==
    /\ creates = [c \in JobRuns |-> [pc |-> "idle", user |-> 0]]
    /\ runners = <<>>
    /\ run_owners = [r \in JobRuns |-> 0]
    /\ user_runs = [u \in Users |-> {}]
    /\ stopLog = <<>>
    /\ stopAll = [pc |-> "idle", listed |-> {}, todo |-> {}, tried |-> {}, failed |-> {},
                  awaiting |-> 0]
    /\ db = [r \in JobRuns |-> "none"]
    /\ queued = {}
    /\ active_runs = {}
    /\ worker = [r \in JobRuns |-> "none"]
    /\ stops = [r \in JobRuns |-> IdleStop]
    /\ monitor = [pc |-> "sleep", todo |-> {}, errors |-> 0]
    /\ finishedCalls = [r \in JobRuns |-> 0]
    /\ restarts = 0
    /\ op = "execute"
    /\ aliased = FALSE
    /\ timeout = 1
    /\ validation = [valid |-> TRUE, errors |-> <<>>]
    /\ prevHandler = "SIG_DFL"
    /\ initialized = FALSE
    /\ CallIdle
    /\ WireIdle
    /\ ConnIdle
    /\ PairIdle
    /\ AlarmIdle
    /\ ResultIdle

NextJobs ==
    /\ \/ \E c \in JobRuns, u \in Users : JobCreateCheck(c, u)
       \/ \E c \in JobRuns : JobCreateRecord(c)
       \/ \E c \in JobRuns : JobCreateDeferred(c)
       \/ \E r \in JobRuns : WorkerPick(r)
       \/ \E r \in JobRuns : WorkerGotRun(r)
       \/ \E r \in JobRuns : WorkerStarted(r)
       \/ \E r \in JobRuns : WorkerTurn(r)
       \/ \E r \in JobRuns : WorkerFinalize(r)
       \/ \E r \in JobRuns, u \in Users : JobStopRun(r, u)
       \/ \E r \in JobRuns : JobStopRead(r)
       \/ \E r \in JobRuns : JobStopUpdate(r)
       \/ MonitorWake
       \/ \E r \in JobRuns : MonitorCheck(r)
       \/ JobStopAllBegin
       \/ \E r \in JobRuns : JobStopAllStop(r)
       \/ JobStopAllClear
       \/ Restart
    /\ UNCHANGED <<sandboxVars, wireVars, connVars, pairVars, alarmVars, resultVars, runners>>

SpecJobs == InitJobs /\ [][NextJobs]_vars

\* C33: once the backend's stop_run has returned for a run that has a record,
\* the run's persisted status is "stopped" and stays so, whatever a worker does
\* with the run's job
C33_StoppedStaysStopped ==
    \A r \in JobRuns :
        (stops[r].pc = "done" /\ db[r] # "none") => db[r] = "stopped"

\* the web server in service, with its monitor: no shutdown
NextMonitor ==
    /\ \/ \E c \in JobRuns, u \in Users : JobCreateCheck(c, u)
       \/ \E c \in JobRuns : JobCreateRecord(c)
       \/ \E c \in JobRuns : JobCreateDeferred(c)
       \/ \E r \in JobRuns : WorkerPick(r)
       \/ \E r \in JobRuns : WorkerGotRun(r)
       \/ \E r \in JobRuns : WorkerStarted(r)
       \/ \E r \in JobRuns : WorkerTurn(r)
       \/ \E r \in JobRuns : WorkerFinalize(r)
       \/ \E r \in JobRuns, u \in Users : JobStopRun(r, u)
       \/ \E r \in JobRuns : JobStopRead(r)
       \/ \E r \in JobRuns : JobStopUpdate(r)
       \/ MonitorWake
       \/ \E r \in JobRuns : MonitorCheck(r)
    /\ UNCHANGED <<sandboxVars, wireVars, connVars, pairVars, alarmVars, resultVars, runners>>

\* the monitor's task is scheduled again and again: its sleep ends and its
\* awaited get_run calls return
SpecMonitor ==
    /\ InitJobs
    /\ [][NextMonitor]_vars
    /\ WF_jobVars(MonitorWake)
    /\ WF_jobVars(\E r \in JobRuns : MonitorCheck(r))

C39_FailedStartLeavesNothing ==
    \A r \in JobRuns :
        creates[r].pc = "failed" =>
            /\ run_owners[r] = 0
            /\ \A u \in Users : r \notin user_runs[u]
            /\ r \notin active_runs

\* C40: a run is in _user_runs[u] exactly when _run_owners maps it to u, in
\* every state reached by create_and_start_run, stop_run, the on-finished
\* callback, stop_all and recover_state
C40_OwnershipMapsAgree ==
    \A r \in JobRuns : \A u \in Users : (r \in user_runs[u]) <=> (run_owners[r] = u)

\* after a restart, one run recovered for one user and the other run of the
\* module's two dropped by the on-finished callback or by stop_run
C40_Witness ==
    \E r1, r2 \in JobRuns : \E u \in Users :
        /\ r1 # r2
        /\ restarts = 1
        /\ run_owners[r1] = u
        /\ r1 \in user_runs[u]
        /\ creates[r2].pc = "returned"
        /\ run_owners[r2] = 0
        /\ finishedCalls[r2] + (IF stops[r2].pc = "done" THEN 1 ELSE 0) > 0

\* ---------------------------------------------------------------- stopping the proxy
\* APIProxy with several client connections: serve, _handle_client's loop for
\* each connection, stop, and the cancellation of the serve task.  Here sLoop,
\* sIn and cClosed hold one value for each connection, inflight counts the
\* requests that have arrived, and sLog lists the requests dispatched.
MaxConns == 2
MaxArrivals == 3
Conns == 1..MaxConns

\* stop has been called, or the serve task has ended
ServerStopped == proxy \in {"stopped", "finished"}

\* serve, lines 349-362: _running is set and the server listens
StopServeStarted ==
    /\ proxy = "none"
    /\ proxy' = "listening"
    /\ proxyRunning' = TRUE
    /\ sock' = "bound"
    /\ UNCHANGED <<proxyMustCancel, sIn, sLoop, sLog, cClosed, inflight>>

\* a client connects: start_unix_server starts _handle_client for it
Accept(c) ==
    /\ proxy = "listening"
    /\ sLoop[c] = "none"
    /\ sLoop' = [sLoop EXCEPT ![c] = "check"]
    /\ UNCHANGED <<proxy, proxyMustCancel, proxyRunning, sock, sIn, sLog, cClosed, inflight>>

\* a request arrives on an open connection
Arrive(c) ==
    /\ sLoop[c] # "none"
    /\ ~cClosed[c]
    /\ inflight < MaxArrivals
    /\ inflight' = inflight + 1
    /\ sIn' = [sIn EXCEPT ![c] = Append(@, [n |-> inflight + 1, afterStop |-> ServerStopped])]
    /\ UNCHANGED <<proxy, proxyMustCancel, proxyRunning, sock, sLoop, sLog, cClosed>>

\* the client closes its end
PeerClose(c) ==
    /\ sLoop[c] # "none"
    /\ ~cClosed[c]
    /\ cClosed' = [cClosed EXCEPT ![c] = TRUE]
    /\ UNCHANGED <<proxy, proxyMustCancel, proxyRunning, sock, sIn, sLoop, sLog, inflight>>

\* _handle_client, line 377: while self._running
LoopTest(isRunning) == isRunning

\* the loop's test, then the await of read_message, or the finally block
LoopCheck(c) ==
    /\ sLoop[c] = "check"
    /\ sLoop' = [sLoop EXCEPT ![c] = IF LoopTest(proxyRunning) THEN "read" ELSE "ended"]
    /\ UNCHANGED <<proxy, proxyMustCancel, proxyRunning, sock, sIn, sLog, cClosed, inflight>>

\* lines 378-382: read_message returns a request, _handle_request dispatches
\* it, write_message is awaited
ReadMessage(c) ==
    /\ sLoop[c] = "read"
    /\ sIn[c] # <<>>
    /\ sLog' = Append(sLog, [conn |-> c, n |-> Head(sIn[c]).n,
                             afterStop |-> Head(sIn[c]).afterStop,
                             wasRunning |-> proxyRunning])
    /\ sIn' = [sIn EXCEPT ![c] = Tail(@)]
    /\ sLoop' = [sLoop EXCEPT ![c] = "write"]
    /\ UNCHANGED <<proxy, proxyMustCancel, proxyRunning, sock, cClosed, inflight>>

\* write_message has returned, or has raised for a client that is gone
WriteDone(c) ==
    /\ sLoop[c] = "write"
    /\ \E ok \in {TRUE, ~cClosed[c]} :
           sLoop' = [sLoop EXCEPT ![c] = IF ok THEN "check" ELSE "ended"]
    /\ UNCHANGED <<proxy, proxyMustCancel, proxyRunning, sock, sIn, sLog, cClosed, inflight>>

\* lines 379-380: read_message returns None at the end of the stream
ReadEof(c) ==
    /\ sLoop[c] = "read"
    /\ sIn[c] = <<>>
    /\ cClosed[c]
    /\ sLoop' = [sLoop EXCEPT ![c] = "ended"]
    /\ UNCHANGED <<proxy, proxyMustCancel, proxyRunning, sock, sIn, sLog, cClosed, inflight>>

\* APIProxy.stop, lines 436-440: _running is cleared, the listening socket closed
ProxyStop ==
    /\ proxy = "listening"
    /\ ~proxyMustCancel
    /\ proxyRunning' = FALSE
    /\ proxy' = "stopped"
    /\ UNCHANGED <<proxyMustCancel, sock, sIn, sLoop, sLog, cClosed, inflight>>

\* the owner of the serve task cancels it
CancelServe ==
    /\ proxy = "listening"
    /\ ~proxyMustCancel
    /\ proxyMustCancel' = TRUE
    /\ UNCHANGED <<proxy, proxyRunning, sock, sIn, sLoop, sLog, cClosed, inflight>>

\* serve, lines 369-374: serve_forever ends with CancelledError, the server is
\* closed and the finally block clears _running and removes the socket file.
\* Whether closing the server waits for the open connections depends on the
\* interpreter: the step may come while connections are open.
ServeEnds ==
    /\ \/ proxy = "stopped"
       \/ proxy = "listening" /\ proxyMustCancel
    /\ proxy' = "finished"
    /\ proxyRunning' = FALSE
    /\ sock' = "removed"
    /\ UNCHANGED <<proxyMustCancel, sIn, sLoop, sLog, cClosed, inflight>>

stopFrame == <<op, aliased, timeout, validation, prevHandler, wireVars, pairVars, alarmVars,
               resultVars, runVars, jobVars, pc, outcomes, retval, initialized, clockVars,
               running, inner, innerRes, tmpdir, resultFile, contVars, served, refused,
               sigVars, cKind, cId, cPhase, cLen, cAcc, cDone, cOut, cBuf, cEof, sEndedBy>>

InitStop ==
    /\ op = "stop"
    /\ aliased = FALSE
    /\ timeout = 1
    /\ validation = [valid |-> TRUE, errors |-> <<>>]
    /\ prevHandler = "SIG_DFL"
    /\ initialized = FALSE
    /\ CallIdle
    /\ WireIdle
    /\ cKind = "raw"
    /\ cId = 0
    /\ cPhase = "idle"
    /\ cLen = 0
    /\ cAcc = <<>>
    /\ cDone = <<>>
    /\ cClosed = [c \in Conns |-> FALSE]
    /\ cOut = <<>>
    /\ cBuf = <<>>
    /\ cEof = FALSE
    /\ sIn = [c \in Conns |-> <<>>]
    /\ sLoop = [c \in Conns |-> "none"]
    /\ sEndedBy = 0
    /\ sLog = <<>>
    /\ PairIdle
    /\ AlarmIdle
    /\ ResultIdle
    /\ RunsIdle
    /\ JobsIdle

NextStop ==
    /\ \/ StopServeStarted
       \/ \E c \in Conns : Accept(c)
       \/ \E c \in Conns : Arrive(c)
       \/ \E c \in Conns : PeerClose(c)
       \/ \E c \in Conns : LoopCheck(c)
       \/ \E c \in Conns : ReadMessage(c)
       \/ \E c \in Conns : WriteDone(c)
       \/ \E c \in Conns : ReadEof(c)
       \/ ProxyStop
       \/ CancelServe
       \/ ServeEnds
    /\ UNCHANGED stopFrame

SpecStop == InitStop /\ [][NextStop]_vars

\* C35: once the proxy has been stopped (stop called, or the serve task ended
\* by its cancellation), no request that arrives afterwards on an open
\* connection is dispatched to the game session
C35_NoDispatchAfterStop ==
    \A i \in DOMAIN sLog : ~sLog[i].afterStop

\* ---------------------------------------------------------------- the function that is run
\* Which function of the submitted code execute's container (run_skill.py) and
\* execute_local call.  Here scen holds the request (the code's top-level
\* function definitions in their order, and skill_name), validation carries
\* the function_name that validation resolved ("": None), and outExec and
\* outLocal hold the definition that was called (0: none was found).
MaxDefs == 3
FuncNames == {"skill", "helper", "_prep"}
SkillCodes == UNION {[1..k -> [name : FuncNames, async : BOOLEAN]] : k \in 1..MaxDefs}

\* name.startswith("_")
StartsWithUnderscore(name) == name = "_prep"

\* exec(compiled, namespace): a name keeps the place of its first binding in
\* the dict and holds the last definition bound to it
Bound(code) == {code[i].name : i \in DOMAIN code}
FirstAt(code, name) == CHOOSE i \in DOMAIN code :
                           /\ code[i].name = name
                           /\ \A j \in DOMAIN code : code[j].name = name => i <= j
LastAt(code, name) == CHOOSE i \in DOMAIN code :
                          /\ code[i].name = name
                          /\ \A j \in DOMAIN code : code[j].name = name => j <= i

\* asyncio.iscoroutinefunction(obj) and not name.startswith("_")
IsCandidate(code, name) == code[LastAt(code, name)].async /\ ~StartsWithUnderscore(name)

\* execute_skill, run_skill.py 96-109: the first public coroutine function in
\* the namespace's order; skill_name only names the compiled file
SkillFunc(code, skill_name) ==
    LET cands == {n \in Bound(code) : IsCandidate(code, n)} IN
    IF cands = {} THEN 0
    ELSE LastAt(code, CHOOSE n \in cands :
                          \A m \in cands : FirstAt(code, n) <= FirstAt(code, m))

\* execute_local, manager.py 519-526: validation.function_name or skill_name,
\* looked up in the namespace
LocalFunc(code, skill_name, function_name) ==
    LET func_name == IF function_name # "" THEN function_name ELSE skill_name IN
    IF func_name \notin Bound(code) THEN 0 ELSE LastAt(code, func_name)

\* the container runs run_skill.py on the code file and params.json
EntryContainer ==
    /\ outExec = <<>>
    /\ outExec' = <<SkillFunc(scen[1].code, scen[1].skill_name)>>
    /\ UNCHANGED outLocal

EntryLocal ==
    /\ outLocal = <<>>
    /\ outLocal' = <<LocalFunc(scen[1].code, scen[1].skill_name, validation.function_name)>>
    /\ UNCHANGED outExec

InitEntry ==
    /\ \E code \in SkillCodes, skill_name \in FuncNames :
           scen = <<[code |-> code, skill_name |-> skill_name]>>
    /\ \E function_name \in FuncNames \cup {""} :
           validation = [valid |-> TRUE, errors |-> <<>>, function_name |-> function_name]
    /\ art = <<>>
    /\ outLocal = <<>>
    /\ outExec = <<>>
    /\ outCode = <<>>
    /\ op = "execute"
    /\ aliased = FALSE
    /\ timeout = 1
    /\ prevHandler = "SIG_DFL"
    /\ initialized = FALSE
    /\ CallIdle
    /\ WireIdle
    /\ ConnIdle
    /\ PairIdle
    /\ AlarmIdle
    /\ RunsIdle
    /\ JobsIdle

NextEntry ==
    /\ \/ EntryContainer
       \/ EntryLocal
    /\ UNCHANGED <<sandboxVars, wireVars, connVars, pairVars, alarmVars, runVars, jobVars,
                   scen, art, outCode>>

SpecEntry == InitEntry /\ [][NextEntry]_vars

\* the request's skill_name names a public async function of the code, and
\* validation resolved the entry point to it
EntryResolved ==
    /\ scen[1].skill_name \in Bound(scen[1].code)
    /\ IsCandidate(scen[1].code, scen[1].skill_name)
    /\ validation.function_name = scen[1].skill_name

\* C36: the function run inside the container is the one named by the
\* request's skill_name, the entry point that validation resolved, also when
\* the code defines several public async functions, and execute_local runs
\* that same function
C36_RunsTheNamedFunction ==
    EntryResolved =>
        /\ outExec # <<>> => outExec[1] = LastAt(scen[1].code, scen[1].skill_name)
        /\ (outExec # <<>> /\ outLocal # <<>>) => outLocal[1] = outExec[1]

\* ---------------------------------------------------------------- the run loop
\* WebAgentRunner._run_loop as one task, with stop() and a cancellation of the
\* task from outside.  Here worker is the task and the runner's fields, db the
\* persisted run record, stops the number of stop() calls and cancellations,
\* and finishedCalls the number of calls of the on-finished callback.
MaxTurns == 2
MaxFaults == 1

\* the awaits of _run_loop and of what it calls
LoopAwaits == {"step", "save_turn", "update_run_stats", "sleep", "save_final_turn",
               "get_run_peak_stats", "update_run"}

\* _determine_end_reason, lines 309-317
DetermineEndReason(isRunning, cause) == IF ~isRunning THEN "stopped by user" ELSE cause

\* _finalize_run up to its first await: end_episode, then get_run_peak_stats
Finalize(w, block, reason) ==
    [w EXCEPT !.pc = "get_run_peak_stats", !.block = block, !.reason = reason,
              !.finalizes = @ + 1]

\* the finally block of _run_loop, lines 149-158: _running is cleared, the game
\* API closed and the callback invoked
Finally(w) == [w EXCEPT !.pc = "done", !._running = FALSE, !.closed = @ + 1, !.cancel = FALSE]

\* an exception leaves an await of the try block: the except clause, lines
\* 145-147, finalizes with the error; out of an except clause it propagates
LoopRaise(w) ==
    IF w.block = "try" THEN Finalize(w, "except Exception", "error") ELSE Finally(w)

LoopEnds(w) == IF w.pc = "done" THEN 1 ELSE 0

\* the while test, lines 111-114: the loop goes on to the agent's step, sleeps
\* while paused, or ends with the final turn
LoopHead ==
    /\ worker.pc = "while" /\ ~worker.cancel
    /\ IF ~worker.is_done /\ worker._running
       THEN \E paused \in BOOLEAN :
                worker' = [worker EXCEPT !.pc = IF paused THEN "sleep" ELSE "step"]
       ELSE worker' = [worker EXCEPT !.pc = "save_final_turn"]
    /\ UNCHANGED <<db, stops, finishedCalls>>

\* lines 119-131: agent.step returns a decision; a valid one is saved as a turn
StepDone ==
    /\ worker.pc = "step" /\ ~worker.cancel
    /\ worker.turns < MaxTurns
    /\ \E valid \in BOOLEAN, cause \in {"", "game over", "too many errors", "completed"} :
           worker' = [worker EXCEPT !.pc = IF valid THEN "save_turn" ELSE "sleep",
                                    !.turns = @ + 1,
                                    !.is_done = cause # "",
                                    !.cause = cause]
    /\ UNCHANGED <<db, stops, finishedCalls>>

\* the agent ends the episode at the last of the turns
StepLast ==
    /\ worker.pc = "step" /\ ~worker.cancel
    /\ worker.turns = MaxTurns
    /\ \E cause \in {"game over", "too many errors", "completed"} :
           worker' = [worker EXCEPT !.pc = "sleep", !.is_done = TRUE, !.cause = cause]
    /\ UNCHANGED <<db, stops, finishedCalls>>

\* save_turn, _update_run_stats and sleep(0) return
LoopAwaited ==
    /\ worker.pc \in {"save_turn", "update_run_stats", "sleep"} /\ ~worker.cancel
    /\ worker' = [worker EXCEPT !.pc = CASE worker.pc = "save_turn" -> "update_run_stats"
                                         [] worker.pc = "update_run_stats" -> "sleep"
                                         [] OTHER -> "while"]
    /\ UNCHANGED <<db, stops, finishedCalls>>

\* an await of the loop raises: the agent's step or a repository call fails
LoopFault ==
    /\ worker.pc \in {"step", "save_turn", "update_run_stats"} /\ ~worker.cancel
    /\ worker.faults < MaxFaults
    /\ worker' = LoopRaise([worker EXCEPT !.faults = @ + 1])
    /\ finishedCalls' = finishedCalls + LoopEnds(worker')
    /\ UNCHANGED <<db, stops>>

\* _save_final_turn, lines 243-302, has saved the turn or has logged its own
\* exception; then _determine_end_reason and _finalize_run
FinalTurnSaved ==
    /\ worker.pc = "save_final_turn" /\ ~worker.cancel
    /\ \E fails \in BOOLEAN :
           /\ fails => worker.faults < MaxFaults
           /\ worker' = Finalize([worker EXCEPT !.faults = @ + (IF fails THEN 1 ELSE 0)], "try",
                                 DetermineEndReason(worker._running, worker.cause))
    /\ UNCHANGED <<db, stops, finishedCalls>>

\* _finalize_run, lines 337-352: the peak stats are read, or the exception of
\* the read is logged; then the record is set and update_run awaited
PeakRead ==
    /\ worker.pc = "get_run_peak_stats" /\ ~worker.cancel
    /\ \E fails \in BOOLEAN :
           /\ fails => worker.faults < MaxFaults
           /\ worker' = [worker EXCEPT !.pc = "update_run",
                                       !.faults = @ + (IF fails THEN 1 ELSE 0)]
    /\ UNCHANGED <<db, stops, finishedCalls>>

\* what update_run has written of the finalized record
Written(reason) == [db EXCEPT !.status = "stopped", !.end_reason = reason, !.ended_at = TRUE,
                              !.writes = @ + 1]

\* _finalize_run, lines 354-359: update_run has written the record; the except
\* clause of CancelledError raises again; then the finally block
FinalWritten ==
    /\ worker.pc = "update_run" /\ ~worker.cancel
    /\ db' = Written(worker.reason)
    /\ worker' = Finally(worker)
    /\ finishedCalls' = finishedCalls + 1
    /\ UNCHANGED stops

\* update_run raises in _finalize_run
FinalWriteFault ==
    /\ worker.pc = "update_run" /\ ~worker.cancel
    /\ worker.faults < MaxFaults
    /\ worker' = LoopRaise([worker EXCEPT !.faults = @ + 1])
    /\ finishedCalls' = finishedCalls + LoopEnds(worker')
    /\ UNCHANGED <<db, stops>>

\* the task is resumed with CancelledError at the await it is suspended in.  In
\* the try block the except clause, lines 141-143, finalizes with "cancelled";
\* in an except clause the exception propagates.  An update_run that is
\* cancelled has committed the record or has not.
LoopCancelled ==
    /\ worker.pc \in LoopAwaits /\ worker.cancel
    /\ \E committed \in {FALSE, worker.pc = "update_run"} :
           db' = IF committed THEN Written(worker.reason) ELSE db
    /\ worker' = IF worker.block = "try"
                 THEN Finalize([worker EXCEPT !.cancel = FALSE], "except CancelledError",
                               "cancelled")
                 ELSE Finally(worker)
    /\ finishedCalls' = finishedCalls + LoopEnds(worker')
    /\ UNCHANGED stops

\* stop, lines 361-371: _running is cleared and the task cancelled
RunnerStop ==
    /\ stops < MaxStops
    /\ stops' = stops + 1
    /\ worker' = [worker EXCEPT !._running = FALSE, !.cancel = worker.pc # "done"]
    /\ UNCHANGED <<db, finishedCalls>>

\* the task is cancelled by the event loop or by its owner
TaskCancel ==
    /\ stops < MaxStops
    /\ worker.pc # "done"
    /\ stops' = stops + 1
    /\ worker' = [worker EXCEPT !.cancel = TRUE]
    /\ UNCHANGED <<db, finishedCalls>>

\* start has returned, lines 79-105: the record is there with status
\* "running" and the task of _run_loop is created
InitLoop ==
    /\ worker = [pc |-> "while", _running |-> TRUE, is_done |-> FALSE, cause |-> "",
                 cancel |-> FALSE, block |-> "try", reason |-> "", turns |-> 0, faults |-> 0,
                 closed |-> 0, finalizes |-> 0]
    /\ db = [status |-> "running", end_reason |-> "", ended_at |-> FALSE, writes |-> 0]
    /\ stops = 0
    /\ finishedCalls = 0
    /\ queued = {}
    /\ active_runs = {}
    /\ monitor = <<>>
    /\ restarts = 0
    /\ op = "execute"
    /\ aliased = FALSE
    /\ timeout = 1
    /\ validation = [valid |-> TRUE, errors |-> <<>>]
    /\ prevHandler = "SIG_DFL"
    /\ initialized = FALSE
    /\ CallIdle
    /\ WireIdle
    /\ ConnIdle
    /\ PairIdle
    /\ AlarmIdle
    /\ ResultIdle
    /\ RunsIdle

NextLoop ==
    /\ \/ LoopHead
       \/ StepDone
       \/ StepLast
       \/ LoopAwaited
       \/ LoopFault
       \/ FinalTurnSaved
       \/ PeakRead
       \/ FinalWritten
       \/ FinalWriteFault
       \/ LoopCancelled
       \/ RunnerStop
       \/ TaskCancel
    /\ UNCHANGED <<sandboxVars, wireVars, connVars, pairVars, alarmVars, resultVars, runVars,
                   queued, active_runs, monitor, restarts>>

SpecLoop == InitLoop /\ [][NextLoop]_vars

\* C37: whichever way the run loop ends, the run record has been finalized
\* exactly once (status "stopped", ended_at and end_reason set and written), the
\* game API is closed, is_running is false, and the on-finished callback has
\* been invoked exactly once
C37_FinalizedExactlyOnce ==
    worker.pc = "done" =>
        /\ db.writes = 1
        /\ db.status = "stopped"
        /\ db.ended_at
        /\ db.end_reason # ""
        /\ worker.finalizes = 1
        /\ worker.closed = 1
        /\ ~worker._running
        /\ finishedCalls = 1

\* ---------------------------------------------------------------- the live stream
\* live_stream polling the repository for one connected client while the
\* run's runner persists its turns and finalizes the record.  Here db is the
\* repository (the number of turns persisted, numbered from 1, and the run's
\* status), worker the runner, and monitor the handler of the WebSocket with
\* what it has sent.
MaxSaved == 52
TurnLimit == 50
\* PostgresRepository.get_turns: the turns numbered above after_turn, in the
\* order of their numbers, at most limit of them
GetTurns(saved, after_turn, limit) ==
    [i \in 1..Min(saved - after_turn, limit) |-> after_turn + i]

\* _run_loop, lines 126-136: a turn is saved with the next number; the last
\* one is the final turn
SaveTurn ==
    /\ worker = "running"
    /\ db.turns < MaxSaved
    /\ db' = [db EXCEPT !.turns = @ + 1]
    /\ UNCHANGED <<worker, monitor>>

\* _finalize_run: the record is written with status "stopped"
RunFinalized ==
    /\ worker = "running"
    /\ db' = [db EXCEPT !.status = "stopped"]
    /\ worker' = "done"
    /\ UNCHANGED monitor

\* live_stream, lines 24-34: the client is accepted, the run is found
LiveConnect ==
    /\ monitor.pc = "none"
    /\ monitor' = [monitor EXCEPT !.pc = "get_turns"]
    /\ UNCHANGED <<db, worker>>

\* line 38: get_turns is awaited and answers from the turns persisted by then
LiveGetTurns ==
    /\ monitor.pc = "get_turns"
    /\ monitor' = [monitor EXCEPT !.pc = "send_json",
                                  !.new_turns = GetTurns(db.turns, monitor.last_seen_turn,
                                                         TurnLimit)]
    /\ UNCHANGED <<db, worker>>

\* lines 40-47: each of new_turns is sent and becomes last_seen_turn; then
\* get_run is awaited
LiveSend ==
    /\ monitor.pc = "send_json"
    /\ monitor' = [monitor EXCEPT !.pc = "get_run",
                                  !.sent = @ \o monitor.new_turns,
                                  !.last_seen_turn =
                                      IF monitor.new_turns = <<>> THEN @
                                      ELSE monitor.new_turns[Len(monitor.new_turns)],
                                  !.new_turns = <<>>]
    /\ UNCHANGED <<db, worker>>

\* lines 50-60: get_run answers; run_ended is sent for a run that has ended and
\* the loop is left, otherwise the handler sleeps
LiveGetRun ==
    /\ monitor.pc = "get_run"
    /\ monitor' = IF db.status \in Terminal
                  THEN [monitor EXCEPT !.pc = "closed", !.run_ended = TRUE]
                  ELSE [monitor EXCEPT !.pc = "sleep"]
    /\ UNCHANGED <<db, worker>>

LiveSlept ==
    /\ monitor.pc = "sleep"
    /\ monitor' = [monitor EXCEPT !.pc = "get_turns"]
    /\ UNCHANGED <<db, worker>>

InitLive ==
    /\ db = [turns |-> 0, status |-> "running"]
    /\ worker = "running"
    /\ monitor = [pc |-> "none", last_seen_turn |-> 0, new_turns |-> <<>>, sent |-> <<>>,
                  run_ended |-> FALSE]
    /\ stops = <<>>
    /\ finishedCalls = <<>>
    /\ queued = {}
    /\ active_runs = {}
    /\ restarts = 0
    /\ op = "execute"
    /\ aliased = FALSE
    /\ timeout = 1
    /\ validation = [valid |-> TRUE, errors |-> <<>>]
    /\ prevHandler = "SIG_DFL"
    /\ initialized = FALSE
    /\ CallIdle
    /\ WireIdle
    /\ ConnIdle
    /\ PairIdle
    /\ AlarmIdle
    /\ ResultIdle
    /\ RunsIdle

NextLive ==
    /\ \/ SaveTurn
       \/ RunFinalized
       \/ LiveConnect
       \/ LiveGetTurns
       \/ LiveSend
       \/ LiveGetRun
       \/ LiveSlept
    /\ UNCHANGED <<sandboxVars, wireVars, connVars, pairVars, alarmVars, resultVars, runVars,
                   stops, finishedCalls, queued, active_runs, restarts>>

SpecLive == InitLive /\ [][NextLive]_vars

\* C38: for a client that stays connected, every persisted turn is sent exactly
\* once, in increasing turn_number order, and run_ended is sent only after all
\* of the run's persisted turns, the final turn included, have been sent
C38_AllTurnsBeforeRunEnded ==
    /\ \A i \in DOMAIN monitor.sent : monitor.sent[i] = i
    /\ Len(monitor.sent) <= db.turns
    /\ monitor.run_ended => Len(monitor.sent) = db.turns

====
